---- MODULE Spec2Model ----
(***************************************************************************)
(* API key management service (Flask + SQLAlchemy): the credential store,  *)
(* the key lifecycle routes (routes/api_keys.py) and the X-API-Key         *)
(* validation middleware (utils/decorators.py).                            *)
(*                                                                         *)
(* The store is the committed content of the tables api_keys and           *)
(* api_usage.  Every HTTP request runs in its own SQLAlchemy session: it   *)
(* reads rows into the session (a private snapshot), works on them in      *)
(* memory, and writes them back when it flushes and commits.  A request    *)
(* that reads and later writes is therefore two steps, and other requests  *)
(* may run between them (the server is threaded).  Writers are serialized  *)
(* by the store from flush to commit, so flush + commit is one step.       *)
(*                                                                         *)
(* The lifecycle handlers are modelled for an authenticated, verified      *)
(* caller u (current_user.id); request fields are the text values the      *)
(* handlers strip() and parse.                                             *)
(***************************************************************************)
EXTENDS Integers, Sequences, FiniteSets, TLC

\* ---------------------------------------------------------------- bounds
NumUsers == 2
NumReq == 2
MwKeys == 1
KeysRows == 1
KeysUsage == 1
MaxUsage == 2
MaxDays == 2
MaxIssued == 3
QuotaOthers == 1
LifeKeys == 1
LifeUsage == 1
DeleteUsage == 1
PairKeys == 2
MaxAccounts == 2
RaceAccounts == 2
MaxLogins == 2
OtpLogins == 1
MaxMail == 1
MailLogins == 1
MailKeys == 1
MailIssued == 2
GateAccounts == 1
GateKeys == 1
GateIssued == 2
UpdateRows == 2
StampUsage == 3
StampIssued == 2
MaxClock == 601

\* ------------------------------------------------------ program constants
KeyLimit == 10
MaxExpiryDays == 365
SecondsPerDay == 86400
OtpWindow == 600
OtpLow == 100000
OtpHigh == 999999
MinPasswordLen == 8
MinUsernameLen == 3

Users == 1..NumUsers
Req == 1..NumReq
Null == 0 - 1

\* ------------------------------------------------------------ credentials
\* A raw API key is a 128-character random string.  The n-th distinct draw
\* of the generator is RawKey(n): pre stands for its first 16 characters
\* (two draws may share them), suf for the other 112.
NoCred == [kind |-> "none", pre |-> 0, suf |-> 0]
RawKey(n) == [kind |-> "raw", pre |-> (n + 1) \div 2, suf |-> n]

\* hashlib.sha256(raw).hexdigest(): a digest, equal for equal inputs only
Sha256(raw) == [kind |-> "sha256", pre |-> raw.pre, suf |-> raw.suf]

\* raw_key[:16] + '...'
Prefix16(raw) == [kind |-> "preview", pre |-> raw.pre, suf |-> 0]

\* ------------------------------------------------------------------ names
NoName == [text |-> "", num |-> 0]
GivenName(s) == [text |-> s, num |-> 0]
\* f"API Key {user_key_count + 1}"
DefaultName(n) == [text |-> "API Key", num |-> n + 1]

\* ----------------------------------------------------------- text fields
\* data.get('expires_in_days', '').strip(): empty, a non-numeric text, or
\* the decimal text of an integer
EmptyField == [kind |-> "empty", val |-> 0]
TextField == [kind |-> "text", val |-> 0]
IntField(n) == [kind |-> "int", val |-> n]

VARIABLES keys, usage, now, issued, pc, loc, resp, calls

\* the users and login_history tables, the users holding a login session,
\* and the mails handed to the mail server
VARIABLES accounts, logins, sessions, outbox

\* history: the ids of the keys whose status has been 'revoked' at some time
VARIABLE revokedOnce

\* the auth requests between their reads and their commit
VARIABLE flight

authVars == <<accounts, logins, sessions, outbox, flight>>

keyVars == <<keys, usage, issued, pc, loc, calls, revokedOnce>>

vars == <<keys, usage, now, issued, pc, loc, resp, calls,
          accounts, logins, sessions, outbox, revokedOnce, flight>>

\* -------------------------------------------------------------- responses
\* The response of the request served last: the route (op), the caller (u,
\* 0 for an API client), the key_id of the URL (id, 0 when the route has
\* none), the status code and the JSON body.
Reply(op, u, id, code, error) ==
    [op |-> op, u |-> u, id |-> id, code |-> code, error |-> error,
     message |-> "", api_key |-> NoCred, keys |-> {}, logs |-> {}]

NoReply == Reply("", 0, 0, 0, "")

IdleLoc ==
    [u |-> 0, kid |-> 0, cnt |-> 0, t |-> 0, ip |-> "", ua |-> "",
     exp |-> Null, name |-> NoName]

\* ------------------------------------------------------------------ ApiKey
\* a set_key_hash that keeps the whole string as the preview
SetKeyHashWholePreview(row, raw) ==
    [row EXCEPT !.key_hash = Sha256(raw), !.key_preview = raw]

SetKeyHash(row, raw) ==
    [row EXCEPT !.key_hash = Sha256(raw), !.key_preview = Prefix16(raw)]

\* an is_valid that looks at the status alone
IsValidStatusOnly(row, t) == row.status = "active"

IsValid(row, t) ==
    IF row.status # "active" THEN FALSE
    ELSE IF row.expires_at # Null /\ t > row.expires_at THEN FALSE
    ELSE TRUE

ToDict(row) ==
    [id |-> row.id, name |-> row.name, key_preview |-> row.key_preview,
     status |-> row.status, created_at |-> row.created_at,
     expires_at |-> row.expires_at, last_used |-> row.last_used,
     usage_count |-> row.usage_count]

UsageToDict(row) ==
    [id |-> row.id, key_id |-> row.key_id, endpoint |-> row.endpoint,
     timestamp |-> row.timestamp, status |-> row.status,
     ip_address |-> row.ip_address, user_agent |-> row.user_agent]

\* a record_usage that counts and does not stamp last_used
RecordUsageNoStamp(row, t) == [row EXCEPT !.usage_count = @ + 1]

\* record_usage: the new column values of the session's copy of the key ...
RecordUsage(row, t) ==
    [row EXCEPT !.last_used = t, !.usage_count = @ + 1]

\* ... and the ApiUsage object added to the session (ip_address, user_agent
\* unset)
RecordUsageRow(kid, endpoint, status, t) ==
    [key_id |-> kid, endpoint |-> endpoint, timestamp |-> t,
     status |-> status, ip_address |-> "", user_agent |-> ""]

\* ------------------------------------------------------------------ store
SetMin(S) == CHOOSE x \in S : \A y \in S : x <= y
SetMax(S) == CHOOSE x \in S : \A y \in S : x >= y

\* a lookup that takes the first row whatever its hash
FindFirstRow(h) == IF Len(keys) > 0 THEN 1 ELSE 0

\* ApiKey.query.filter_by(key_hash=h).first(): the row's id, 0 for None
FindByHash(h) ==
    LET S == {i \in 1..Len(keys) : keys[i].key_hash = h}
    IN IF S = {} THEN 0 ELSE SetMin(S)

\* a lookup by id alone
KeyById(i, u) == IF i \in 1..Len(keys) THEN i ELSE 0

\* ApiKey.query.filter_by(id=key_id, user_id=current_user.id).first()
OwnedKey(i, u) ==
    IF i \in 1..Len(keys) /\ keys[i].user_id = u THEN i ELSE 0

\* a count over every user's keys
KeyCountAll(u) == Len(keys)

\* a count that leaves the revoked keys out
KeyCountLive(u) ==
    Cardinality({i \in 1..Len(keys) :
                    keys[i].user_id = u /\ keys[i].status # "revoked"})

\* ApiKey.query.filter_by(user_id=current_user.id).count()
KeyCount(u) == Cardinality({i \in 1..Len(keys) : keys[i].user_id = u})

\* INSERT INTO api_usage: the store assigns the next id
InsertUsage(tbl, row) ==
    Append(tbl, [id |-> Len(tbl) + 1, key_id |-> row.key_id,
                 endpoint |-> row.endpoint, timestamp |-> row.timestamp,
                 status |-> row.status, ip_address |-> row.ip_address,
                 user_agent |-> row.user_agent])

\* ApiUsage.query.filter_by(key_id=k).order_by(ApiUsage.id.desc()).first()
LatestUsage(tbl, k) ==
    LET S == {i \in 1..Len(tbl) : tbl[i].key_id = k}
    IN IF S = {} THEN 0 ELSE SetMax(S)

\* a request slot of the auth routes with no request in it
NoFlight ==
    [op |-> "", uid |-> 0, otp_code |-> "", username |-> "", email |-> "",
     password |-> [text |-> "", len |-> 0, upper |-> FALSE, lower |-> FALSE,
                   digit |-> FALSE],
     first |-> FALSE, t |-> 0]

Init ==
    /\ keys = <<>>
    /\ usage = <<>>
    /\ now = 0
    /\ issued = 0
    /\ pc = [r \in Req |-> "idle"]
    /\ loc = [r \in Req |-> IdleLoc]
    /\ resp = NoReply
    /\ calls = <<>>
    /\ accounts = <<>>
    /\ logins = <<>>
    /\ sessions = {}
    /\ outbox = <<>>
    /\ revokedOnce = {}
    /\ flight = [r \in Req |-> NoFlight]

\* ------------------------------------------------------------------ clock
Tick(d, days) ==
    /\ now + d <= days * SecondsPerDay
    /\ now' = now + d
    /\ UNCHANGED <<keys, usage, issued, pc, loc, resp, calls,
                 revokedOnce, authVars>>

\* ------------------------------------------------- validation middleware
\* The protected view function (routes/api.py test_endpoint), called with
\* g.current_api_key = the key row kid as the store holds it after commit
Handler(tbl, kid) ==
    [Reply("api", 0, 0, 200, "") EXCEPT
        !.keys = {[id |-> kid, name |-> tbl[kid].name,
                   key_preview |-> tbl[kid].key_preview]}]

\* require_api_key up to the end of record_usage: read the header, look the
\* key up by its hash, check is_valid(), and for a valid key change the
\* session's copy (last_used, usage_count += 1).  Nothing is written yet.
MwLookup(r, key, ip, ua) ==
    /\ pc[r] = "idle"
    /\ LET kid == FindByHash(Sha256(key))
           used == RecordUsage(keys[kid], now)
       IN
       IF key = NoCred THEN
            /\ resp' = [Reply("api", 0, 0, 401, "API key required") EXCEPT
                            !.message = "Please provide API key in X-API-Key header"]
            /\ UNCHANGED <<pc, loc>>
       ELSE IF kid = 0 THEN
            /\ resp' = [Reply("api", 0, 0, 401, "Invalid API key") EXCEPT
                            !.message = "The provided API key is not valid"]
            /\ UNCHANGED <<pc, loc>>
       ELSE IF ~IsValid(keys[kid], now) THEN
            /\ pc' = [pc EXCEPT ![r] = "mw_invalid"]
            /\ loc' = [loc EXCEPT ![r] = [IdleLoc EXCEPT
                            !.kid = kid, !.ip = ip, !.ua = ua]]
            /\ UNCHANGED resp
       ELSE
            /\ pc' = [pc EXCEPT ![r] = "mw_valid"]
            /\ loc' = [loc EXCEPT ![r] = [IdleLoc EXCEPT
                            !.kid = kid, !.ip = ip, !.ua = ua,
                            !.cnt = used.usage_count, !.t = used.last_used]]
            /\ UNCHANGED resp
    /\ UNCHANGED <<keys, usage, now, issued, calls,
                 revokedOnce, authVars>>

\* the rejected branch: the invalid_key row is added and committed, and the
\* message names the key's status (reloaded after the commit)
MwReject(r) ==
    /\ pc[r] = "mw_invalid"
    /\ usage' = InsertUsage(usage,
            [RecordUsageRow(loc[r].kid, "api.test", "invalid_key", now) EXCEPT
                !.ip_address = loc[r].ip, !.user_agent = loc[r].ua])
    /\ resp' = [Reply("api", 0, 0, 401, "Invalid API key") EXCEPT
                    !.message = keys[loc[r].kid].status]
    /\ pc' = [pc EXCEPT ![r] = "idle"]
    /\ loc' = [loc EXCEPT ![r] = IdleLoc]
    /\ UNCHANGED <<keys, now, issued, calls,
                 revokedOnce, authVars>>

\* the accepted branch: the query for the key's latest usage row flushes the
\* session (UPDATE api_keys SET last_used, usage_count; INSERT api_usage),
\* that row gets the client's address and agent, the session commits, and
\* the view function runs.  The flush's UPDATE takes the store's write lock
\* (app.py: the store is SQLite unless DATABASE_URL names another), which is
\* held to the commit, so no other request writes between the two: one step.
\* the same with a session that does not flush before the query: the row
\* stamped is the latest one the store already held
MwAcceptNoFlush(r) ==
    /\ pc[r] = "mw_valid"
    /\ LET kid == loc[r].kid
           latest == LatestUsage(usage, kid)
           stamped == IF latest = 0 THEN usage
                      ELSE [usage EXCEPT ![latest].ip_address = loc[r].ip,
                                         ![latest].user_agent = loc[r].ua]
           keys2 == [keys EXCEPT ![kid].last_used = loc[r].t,
                                 ![kid].usage_count = loc[r].cnt]
       IN /\ keys' = keys2
          /\ usage' = InsertUsage(stamped,
                        RecordUsageRow(kid, "api.test", "success", loc[r].t))
          /\ calls' = Append(calls, kid)
          /\ resp' = Handler(keys2, kid)
    /\ pc' = [pc EXCEPT ![r] = "idle"]
    /\ loc' = [loc EXCEPT ![r] = IdleLoc]
    /\ UNCHANGED <<now, issued,
                 revokedOnce, authVars>>

MwAccept(r) ==
    /\ pc[r] = "mw_valid"
    /\ LET kid == loc[r].kid
           flushed == InsertUsage(usage,
                        RecordUsageRow(kid, "api.test", "success", loc[r].t))
           latest == LatestUsage(flushed, kid)
           keys2 == [keys EXCEPT ![kid].last_used = loc[r].t,
                                 ![kid].usage_count = loc[r].cnt]
       IN /\ keys' = keys2
          /\ usage' = [flushed EXCEPT ![latest].ip_address = loc[r].ip,
                                      ![latest].user_agent = loc[r].ua]
          /\ calls' = Append(calls, kid)
          /\ resp' = Handler(keys2, kid)
    /\ pc' = [pc EXCEPT ![r] = "idle"]
    /\ loc' = [loc EXCEPT ![r] = IdleLoc]
    /\ UNCHANGED <<now, issued,
                 revokedOnce, authVars>>

\* ----------------------------------------------------------------- Create
\* a validation that lets 0 days through
ValidateExpiryFromZero(field, t) ==
    IF field.kind = "empty" THEN [error |-> "", expires_at |-> Null]
    ELSE IF field.kind = "text"
        THEN [error |-> "Invalid expiration days", expires_at |-> Null]
    ELSE IF field.val < 0
        THEN [error |-> "Expiration days must be positive", expires_at |-> Null]
    ELSE IF field.val > MaxExpiryDays
        THEN [error |-> "Maximum expiration is 365 days", expires_at |-> Null]
    ELSE [error |-> "", expires_at |-> t + field.val * SecondsPerDay]

\* generate_key, "Validate expiration"
ValidateExpiry(field, t) ==
    IF field.kind = "empty" THEN [error |-> "", expires_at |-> Null]
    ELSE IF field.kind = "text"
        THEN [error |-> "Invalid expiration days", expires_at |-> Null]
    ELSE IF field.val <= 0
        THEN [error |-> "Expiration days must be positive", expires_at |-> Null]
    ELSE IF field.val > MaxExpiryDays
        THEN [error |-> "Maximum expiration is 365 days", expires_at |-> Null]
    ELSE [error |-> "", expires_at |-> t + field.val * SecondsPerDay]

\* generate_key up to the key-limit check: parse the form, validate the
\* expiry, count the caller's keys
CreateCheck(r, u, name, field) ==
    /\ pc[r] = "idle"
    /\ LET v == ValidateExpiry(field, now)
           n == KeyCount(u)
       IN IF v.error # "" THEN
                /\ resp' = Reply("generate", u, 0, 400, v.error)
                /\ UNCHANGED <<pc, loc>>
          ELSE IF n >= KeyLimit THEN
                /\ resp' = Reply("generate", u, 0, 400,
                                 "Maximum number of API keys reached (10)")
                /\ UNCHANGED <<pc, loc>>
          ELSE
                /\ pc' = [pc EXCEPT ![r] = "create"]
                /\ loc' = [loc EXCEPT ![r] = [IdleLoc EXCEPT
                                !.u = u, !.cnt = n, !.name = name,
                                !.exp = v.expires_at]]
                /\ UNCHANGED resp
    /\ UNCHANGED <<keys, usage, now, issued, calls,
                 revokedOnce, authVars>>

\* ApiKey(user_id, name, expires_at) with the column defaults the INSERT
\* fills in (id, status, created_at, usage_count)
NewKey(id, u, name, exp, t) ==
    [id |-> id, user_id |-> u, key_hash |-> NoCred, key_preview |-> NoCred,
     name |-> name, status |-> "active", created_at |-> t,
     expires_at |-> exp, last_used |-> Null, usage_count |-> 0]

\* send_email: the message as the mail server receives it
Mail(kind, to, code) ==
    [kind |-> kind, to |-> to, code |-> code, name |-> NoName,
     key_preview |-> NoCred]

\* send_api_key_generated_email(mail, user_email, key_name, key_preview)
KeyMail(to, name, key_preview) ==
    [Mail("api_key_generated", to, "") EXCEPT
        !.name = name, !.key_preview = key_preview]

\* generate_key and regenerate_key after their commit: the notification goes
\* to current_user.email, and whether it could be sent is not looked at.
\* The mail server takes MaxMail messages.  Where the caller u is assumed
\* and has no row in accounts, the address is unknown and no mail is
\* modelled.
NotifyKey(u, row) ==
    IF u \notin 1..Len(accounts) THEN UNCHANGED outbox
    ELSE \/ UNCHANGED outbox
         \/ /\ Len(outbox) < MaxMail
            /\ outbox' = Append(outbox, KeyMail(accounts[u].email, row.name,
                                                row.key_preview))

\* generate_key from generate_secure_api_key on: n is the generator's draw
\* (issued + 1: a string never drawn before).  The INSERT fails on the
\* unique index of key_hash when the hash is stored already: the commit
\* raises, nothing is written, the request ends with the 500 page.
CreateCommit(r, n) ==
    /\ pc[r] = "create"
    /\ n \in 1..(issued + 1)
    /\ LET raw == RawKey(n)
           name == IF loc[r].name # NoName THEN loc[r].name
                   ELSE DefaultName(loc[r].cnt)
           row == SetKeyHash(NewKey(Len(keys) + 1, loc[r].u, name,
                                    loc[r].exp, now), raw)
       IN IF FindByHash(row.key_hash) # 0 THEN
                /\ resp' = Reply("generate", loc[r].u, 0, 500, "IntegrityError")
                /\ UNCHANGED <<keys, outbox>>
          ELSE
                /\ keys' = Append(keys, row)
                /\ NotifyKey(loc[r].u, row)
                /\ resp' = [Reply("generate", loc[r].u, 0, 201, "") EXCEPT
                                !.api_key = raw, !.keys = {ToDict(row)}]
    /\ issued' = IF n > issued THEN n ELSE issued
    /\ pc' = [pc EXCEPT ![r] = "idle"]
    /\ loc' = [loc EXCEPT ![r] = IdleLoc]
    /\ UNCHANGED <<usage, now, calls, revokedOnce,
                 accounts, logins, sessions, flight>>

\* data.get('status', '').strip().lower() on the forms a client may send
StripLower(s) ==
    CASE s = " Active " -> "active"
      [] s = "REVOKED" -> "revoked"
      [] OTHER -> s

\* ------------------------------------------- owner-scoped key operations
\* the history variable follows the status column
NoteRevoked ==
    revokedOnce' = revokedOnce \cup
        {j \in 1..Len(keys') : keys'[j].status = "revoked"}

NotFound(op, u, i) == Reply(op, u, i, 404, "API key not found")

\* a list of statuses that lets 'deleted' through
StatusValuesWide == {"active", "inactive", "revoked", "deleted"}

StatusValues == {"active", "inactive", "revoked"}

\* list_keys
ListKeys(u) ==
    /\ resp' = [Reply("list", u, 0, 200, "") EXCEPT
                    !.keys = {ToDict(keys[i]) : i \in {j \in 1..Len(keys) :
                                                    keys[j].user_id = u}}]
    /\ UNCHANGED <<keys, usage, now, issued, pc, loc, calls,
                 revokedOnce, authVars>>

\* get_key
GetKey(u, i) ==
    /\ LET k == OwnedKey(i, u) IN
       resp' = IF k = 0 THEN NotFound("get", u, i)
               ELSE [Reply("get", u, i, 200, "") EXCEPT !.keys = {ToDict(keys[k])}]
    /\ UNCHANGED <<keys, usage, now, issued, pc, loc, calls,
                 revokedOnce, authVars>>

\* update_key_status: new_status is data.get('status', '').strip().lower()
UpdateKeyStatus(u, i, new_status) ==
    /\ LET k == OwnedKey(i, u) IN
       IF k = 0 THEN
            /\ resp' = NotFound("status", u, i)
            /\ UNCHANGED keys
       ELSE IF new_status \notin StatusValues THEN
            /\ resp' = Reply("status", u, i, 400,
                        "Invalid status. Must be active, inactive, or revoked")
            /\ UNCHANGED keys
       ELSE
            /\ keys' = [keys EXCEPT ![k].status = new_status]
            /\ resp' = [Reply("status", u, i, 200, "") EXCEPT
                            !.message = new_status,
                            !.keys = {ToDict(keys'[k])}]
    /\ UNCHANGED <<usage, now, issued, pc, loc, calls, authVars>>
    /\ NoteRevoked

\* admin_update_key_status: the key is looked up by id alone, get_or_404
\* aborts with the 404 page
AdminUpdateKeyStatus(i, new_status) ==
    /\ IF i \notin 1..Len(keys) THEN
            /\ resp' = Reply("admin_status", 0, i, 404, "Not Found")
            /\ UNCHANGED keys
       ELSE IF new_status \notin StatusValues THEN
            /\ resp' = Reply("admin_status", 0, i, 400, "Invalid status")
            /\ UNCHANGED keys
       ELSE
            /\ keys' = [keys EXCEPT ![i].status = new_status]
            /\ resp' = [Reply("admin_status", 0, i, 200, "") EXCEPT
                            !.message = new_status,
                            !.keys = {ToDict(keys'[i])}]
    /\ UNCHANGED <<usage, now, issued, pc, loc, calls, authVars>>
    /\ NoteRevoked

\* delete_key: "Soft delete by setting status to revoked"
DeleteKey(u, i) ==
    /\ LET k == OwnedKey(i, u) IN
       IF k = 0 THEN
            /\ resp' = NotFound("delete", u, i)
            /\ UNCHANGED keys
       ELSE
            /\ keys' = [keys EXCEPT ![k].status = "revoked"]
            /\ resp' = [Reply("delete", u, i, 200, "") EXCEPT
                            !.message = "API key deleted successfully"]
    /\ UNCHANGED <<usage, now, issued, pc, loc, calls, authVars>>
    /\ NoteRevoked

\* get_key_usage (one page holds every row of the key)
GetKeyUsage(u, i) ==
    /\ LET k == OwnedKey(i, u) IN
       resp' = IF k = 0 THEN NotFound("usage", u, i)
               ELSE [Reply("usage", u, i, 200, "") EXCEPT
                        !.keys = {ToDict(keys[k])},
                        !.logs = {UsageToDict(usage[j]) :
                                    j \in {x \in 1..Len(usage) :
                                            usage[x].key_id = k}}]
    /\ UNCHANGED <<keys, usage, now, issued, pc, loc, calls,
                 revokedOnce, authVars>>

\* a regenerate_key that does not look at the status
RegenerateAnyKey(u, i, n) ==
    /\ n \in 1..(issued + 1)
    /\ LET k == OwnedKey(i, u)
           raw == RawKey(n)
       IN IF k = 0 THEN
                /\ resp' = NotFound("regenerate", u, i)
                /\ UNCHANGED <<keys, issued, outbox>>
          ELSE LET row == [SetKeyHash(keys[k], raw) EXCEPT
                                !.status = "active", !.usage_count = 0,
                                !.last_used = Null]
               IN /\ issued' = IF n > issued THEN n ELSE issued
                  /\ keys' = [keys EXCEPT ![k] = row]
                  /\ NotifyKey(u, row)
                  /\ resp' = [Reply("regenerate", u, i, 200, "") EXCEPT
                                  !.api_key = raw, !.keys = {ToDict(row)}]
    /\ UNCHANGED <<usage, now, pc, loc, calls, revokedOnce,
                 accounts, logins, sessions, flight>>

\* regenerate_key on a table without the unique index on key_hash
RegenerateKeyNoIndex(u, i, n) ==
    /\ n \in 1..(issued + 1)
    /\ LET k == OwnedKey(i, u)
           raw == RawKey(n)
       IN IF k = 0 THEN
                /\ resp' = NotFound("regenerate", u, i)
                /\ UNCHANGED <<keys, issued, outbox>>
          ELSE IF keys[k].status = "revoked" THEN
                /\ resp' = Reply("regenerate", u, i, 400,
                                 "Cannot regenerate revoked key")
                /\ UNCHANGED <<keys, issued, outbox>>
          ELSE LET row == [SetKeyHash(keys[k], raw) EXCEPT
                                !.status = "active", !.usage_count = 0,
                                !.last_used = Null]
               IN /\ issued' = IF n > issued THEN n ELSE issued
                  /\ IF FALSE THEN
                        /\ resp' = Reply("regenerate", u, i, 500, "IntegrityError")
                        /\ UNCHANGED <<keys, outbox>>
                     ELSE
                        /\ keys' = [keys EXCEPT ![k] = row]
                        /\ NotifyKey(u, row)
                        /\ resp' = [Reply("regenerate", u, i, 200, "") EXCEPT
                                        !.api_key = raw, !.keys = {ToDict(row)}]
    /\ UNCHANGED <<usage, now, pc, loc, calls, revokedOnce,
                 accounts, logins, sessions, flight>>

\* regenerate_key: n is the generator's draw.  The UPDATE fails on the
\* unique index of key_hash when another row holds the new hash.
RegenerateKey(u, i, n) ==
    /\ n \in 1..(issued + 1)
    /\ LET k == OwnedKey(i, u)
           raw == RawKey(n)
       IN IF k = 0 THEN
                /\ resp' = NotFound("regenerate", u, i)
                /\ UNCHANGED <<keys, issued, outbox>>
          ELSE IF keys[k].status = "revoked" THEN
                /\ resp' = Reply("regenerate", u, i, 400,
                                 "Cannot regenerate revoked key")
                /\ UNCHANGED <<keys, issued, outbox>>
          ELSE LET row == [SetKeyHash(keys[k], raw) EXCEPT
                                !.status = "active", !.usage_count = 0,
                                !.last_used = Null]
               IN /\ issued' = IF n > issued THEN n ELSE issued
                  /\ IF FindByHash(row.key_hash) \notin {0, k} THEN
                        /\ resp' = Reply("regenerate", u, i, 500, "IntegrityError")
                        /\ UNCHANGED <<keys, outbox>>
                     ELSE
                        /\ keys' = [keys EXCEPT ![k] = row]
                        /\ NotifyKey(u, row)
                        /\ resp' = [Reply("regenerate", u, i, 200, "") EXCEPT
                                        !.api_key = raw, !.keys = {ToDict(row)}]
    /\ UNCHANGED <<usage, now, pc, loc, calls, revokedOnce,
                 accounts, logins, sessions, flight>>

\* an update_key that commits the name before it validates the expiry
UpdateKeyNameFirst(u, i, new_name, field) ==
    /\ LET k == OwnedKey(i, u)
           v == ValidateExpiry(field, now)
           named == [keys EXCEPT
                        ![k].name = IF new_name # NoName THEN new_name ELSE @]
       IN IF k = 0 THEN
                /\ resp' = NotFound("update", u, i)
                /\ UNCHANGED keys
          ELSE IF v.error # "" THEN
                /\ resp' = Reply("update", u, i, 400, v.error)
                /\ keys' = named
          ELSE
                /\ keys' = [named EXCEPT ![k].expires_at = v.expires_at]
                /\ resp' = [Reply("update", u, i, 200, "") EXCEPT
                                !.keys = {ToDict(keys'[k])}]
    /\ UNCHANGED <<usage, now, issued, pc, loc, calls,
                 revokedOnce, authVars>>

\* update_key: a rejected expiry returns before the commit, so the name set
\* on the session's copy is dropped with the session
UpdateKey(u, i, new_name, field) ==
    /\ LET k == OwnedKey(i, u)
           v == ValidateExpiry(field, now)
       IN IF k = 0 THEN
                /\ resp' = NotFound("update", u, i)
                /\ UNCHANGED keys
          ELSE IF v.error # "" THEN
                /\ resp' = Reply("update", u, i, 400, v.error)
                /\ UNCHANGED keys
          ELSE
                /\ keys' = [keys EXCEPT
                        ![k].name = IF new_name # NoName THEN new_name ELSE @,
                        ![k].expires_at = v.expires_at]
                /\ resp' = [Reply("update", u, i, 200, "") EXCEPT
                                !.keys = {ToDict(keys'[k])}]
    /\ UNCHANGED <<usage, now, issued, pc, loc, calls,
                 revokedOnce, authVars>>

\* ------------------------------------------------------------------- User
\* the otp_code column when NULL ('not self.otp_code' holds for '' as well)
NoCode == ""

\* bcrypt.hashpw / bcrypt.checkpw: a hash matches the password it was made of
Bcrypt(password) == [kind |-> "bcrypt", of |-> password.text]

\* a password as the text and what validate_password_strength looks at
Password(text, len, upper, lower, digit) ==
    [text |-> text, len |-> len, upper |-> upper, lower |-> lower,
     digit |-> digit]

\* the characters of the passwords of the model
Chars(text) ==
    CASE text = "short1" -> <<"s", "h", "o", "r", "t", "1">>
      [] text = "LongEnough1" -> <<"L", "o", "n", "g", "E", "n", "o", "u", "g", "h", "1">>
      [] text = "Changed2Pass" -> <<"C", "h", "a", "n", "g", "e", "d", "2", "P", "a", "s", "s">>
      [] text = "longenough1" -> <<"l", "o", "n", "g", "e", "n", "o", "u", "g", "h", "1">>
      [] text = "LONGENOUGH1" -> <<"L", "O", "N", "G", "E", "N", "O", "U", "G", "H", "1">>
      [] text = "LongEnough" -> <<"L", "o", "n", "g", "E", "n", "o", "u", "g", "h">>
      [] text = "Short1A" -> <<"S", "h", "o", "r", "t", "1", "A">>
      [] text = "12345678" -> <<"1", "2", "3", "4", "5", "6", "7", "8">>
      [] OTHER -> <<>>

\* str.isupper, str.islower, str.isdigit on one character
UpperCase ==
    {"A", "B", "C", "D", "E", "F", "G", "H", "I", "J", "K", "L", "M",
     "N", "O", "P", "Q", "R", "S", "T", "U", "V", "W", "X", "Y", "Z"}

LowerCase ==
    {"a", "b", "c", "d", "e", "f", "g", "h", "i", "j", "k", "l", "m",
     "n", "o", "p", "q", "r", "s", "t", "u", "v", "w", "x", "y", "z"}

DigitChars ==
    {"0", "1", "2", "3", "4", "5", "6", "7", "8", "9"}

\* the password typed as text: len(password) and the three any(...) tests
PasswordOf(text) ==
    LET c == Chars(text)
    IN Password(text, Len(c),
                \E i \in 1..Len(c) : c[i] \in UpperCase,
                \E i \in 1..Len(c) : c[i] \in LowerCase,
                \E i \in 1..Len(c) : c[i] \in DigitChars)

NoPassword == Password("", 0, FALSE, FALSE, FALSE)

SetPassword(row, password) ==
    [row EXCEPT !.password_hash = Bcrypt(password)]

CheckPassword(row, password) == row.password_hash = Bcrypt(password)

\* set_otp that stamps the first code only
SetOtpKeepingStamp(row, otp_code, t) ==
    [row EXCEPT !.otp_code = otp_code,
                !.otp_created_at = IF @ = Null THEN t ELSE @]

SetOtp(row, otp_code, t) ==
    [row EXCEPT !.otp_code = otp_code, !.otp_created_at = t]

\* verify_otp with the window closed at its last second already
VerifyOtpBeforeWindowEnd(row, otp_code, t) ==
    IF row.otp_code = NoCode \/ row.otp_created_at = Null THEN FALSE
    ELSE IF t - row.otp_created_at >= OtpWindow THEN FALSE
    ELSE row.otp_code = otp_code

VerifyOtp(row, otp_code, t) ==
    IF row.otp_code = NoCode \/ row.otp_created_at = Null THEN FALSE
    ELSE IF t - row.otp_created_at > OtpWindow THEN FALSE
    ELSE row.otp_code = otp_code

\* generate_otp: n is the draw of random.randint(OtpLow, OtpHigh)
GenerateOtp(n) == ToString(n)

\* validate_password_strength looking for the uppercase letter first
ValidatePasswordStrengthUpperFirst(password) ==
    IF ~password.upper
        THEN [ok |-> FALSE,
              message |-> "Password must contain at least one uppercase letter"]
    ELSE IF password.len < MinPasswordLen
        THEN [ok |-> FALSE,
              message |-> "Password must be at least 8 characters long"]
    ELSE IF ~password.lower
        THEN [ok |-> FALSE,
              message |-> "Password must contain at least one lowercase letter"]
    ELSE IF ~password.digit
        THEN [ok |-> FALSE,
              message |-> "Password must contain at least one number"]
    ELSE [ok |-> TRUE, message |-> "Password is valid"]

\* validate_password_strength
ValidatePasswordStrength(password) ==
    IF password.len < MinPasswordLen
        THEN [ok |-> FALSE,
              message |-> "Password must be at least 8 characters long"]
    ELSE IF ~password.upper
        THEN [ok |-> FALSE,
              message |-> "Password must contain at least one uppercase letter"]
    ELSE IF ~password.lower
        THEN [ok |-> FALSE,
              message |-> "Password must contain at least one lowercase letter"]
    ELSE IF ~password.digit
        THEN [ok |-> FALSE,
              message |-> "Password must contain at least one number"]
    ELSE [ok |-> TRUE, message |-> "Password is valid"]

\* User(username, email) with the column defaults
NewUser(id, username, email, t) ==
    [id |-> id, username |-> username, email |-> email,
     password_hash |-> Bcrypt(NoPassword), otp_verified |-> FALSE,
     otp_code |-> NoCode, otp_created_at |-> Null, is_admin |-> FALSE,
     created_at |-> t, last_login |-> Null]

\* User.query.get(user_id): 0 for None
GetUser(uid) == IF uid \in 1..Len(accounts) THEN uid ELSE 0

\* User.query.filter_by(username=...).first(), filter_by(email=...).first()
FindByUsername(username) ==
    LET S == {i \in 1..Len(accounts) : accounts[i].username = username}
    IN IF S = {} THEN 0 ELSE SetMin(S)

FindByEmail(email) ==
    LET S == {i \in 1..Len(accounts) : accounts[i].email = email}
    IN IF S = {} THEN 0 ELSE SetMin(S)

\* login: filter((User.username == x) | (User.email == x)).first()
FindByIdentifier(x) ==
    LET S == {i \in 1..Len(accounts) :
                accounts[i].username = x \/ accounts[i].email = x}
    IN IF S = {} THEN 0 ELSE SetMin(S)


\* ------------------------------------------------------------ auth routes
\* The form values are taken after .strip() / .lower(); uid = 0 stands for a
\* form without user_id.  n is the draw of generate_otp, sent whether
\* send_email got the message to the mail server.
StrLen(s) ==
    CASE s = "" -> 0
      [] s = "al" -> 2
      [] s = "bob" -> 3
      [] OTHER -> 5

\* re.match(email_pattern, email)
EmailFormatOk(email) == email \in {"alice@x.io", "bob@x.io", "carol@x.io"}

AuthReply(op, uid, code, error, message) ==
    [Reply(op, uid, 0, code, error) EXCEPT !.message = message]

\* register applying the first-user rule to the second user as well
RegisterSecondAdmin(username, email, password, n, sent) ==
    /\ LET strength == ValidatePasswordStrength(password)
           first == Len(accounts) <= 1
           otp_code == GenerateOtp(n)
           id == Len(accounts) + 1
           user == [SetOtp(SetPassword(NewUser(id, username, email, now),
                                       password), otp_code, now)
                        EXCEPT !.is_admin = first, !.otp_verified = first]
           Fail(error) ==
                /\ resp' = AuthReply("register", 0, 400, error, "")
                /\ UNCHANGED <<accounts, outbox>>
       IN IF username = "" \/ email = "" \/ password = NoPassword
                THEN Fail("All fields are required")
          ELSE IF StrLen(username) < MinUsernameLen
                THEN Fail("Username must be at least 3 characters long")
          ELSE IF ~EmailFormatOk(email) THEN Fail("Invalid email format")
          ELSE IF ~strength.ok THEN Fail(strength.message)
          ELSE IF FindByUsername(username) # 0
                THEN Fail("Username already exists")
          ELSE IF FindByEmail(email) # 0
                THEN Fail("Email already registered")
          ELSE /\ accounts' = Append(accounts, user)
               /\ IF first THEN
                        /\ UNCHANGED outbox
                        /\ resp' = AuthReply("register", id, 201, "",
                                    "Admin account created successfully!")
                  ELSE IF sent THEN
                        /\ outbox' = Append(outbox, Mail("otp", email, otp_code))
                        /\ resp' = AuthReply("register", id, 201, "",
                                    "Registration successful! Please check your email for verification code.")
                  ELSE
                        /\ UNCHANGED outbox
                        /\ resp' = AuthReply("register", 0, 500,
                                    "Failed to send verification email", "")
    /\ UNCHANGED <<keyVars, flight, now, logins, sessions>>

\* register
Register(username, email, password, n, sent) ==
    /\ LET strength == ValidatePasswordStrength(password)
           first == Len(accounts) = 0
           otp_code == GenerateOtp(n)
           id == Len(accounts) + 1
           user == [SetOtp(SetPassword(NewUser(id, username, email, now),
                                       password), otp_code, now)
                        EXCEPT !.is_admin = first, !.otp_verified = first]
           Fail(error) ==
                /\ resp' = AuthReply("register", 0, 400, error, "")
                /\ UNCHANGED <<accounts, outbox>>
       IN IF username = "" \/ email = "" \/ password = NoPassword
                THEN Fail("All fields are required")
          ELSE IF StrLen(username) < MinUsernameLen
                THEN Fail("Username must be at least 3 characters long")
          ELSE IF ~EmailFormatOk(email) THEN Fail("Invalid email format")
          ELSE IF ~strength.ok THEN Fail(strength.message)
          ELSE IF FindByUsername(username) # 0
                THEN Fail("Username already exists")
          ELSE IF FindByEmail(email) # 0
                THEN Fail("Email already registered")
          ELSE /\ accounts' = Append(accounts, user)
               /\ IF first THEN
                        /\ UNCHANGED outbox
                        /\ resp' = AuthReply("register", id, 201, "",
                                    "Admin account created successfully!")
                  ELSE IF sent THEN
                        /\ outbox' = Append(outbox, Mail("otp", email, otp_code))
                        /\ resp' = AuthReply("register", id, 201, "",
                                    "Registration successful! Please check your email for verification code.")
                  ELSE
                        /\ UNCHANGED outbox
                        /\ resp' = AuthReply("register", 0, 500,
                                    "Failed to send verification email", "")
    /\ UNCHANGED <<keyVars, flight, now, logins, sessions>>

\* register in two steps, for requests that overlap.  RegisterCheck is the
\* request up to User.query.count() (lines 16-54): the validation, the two
\* existence checks, set_otp and the first-user test
RegisterCheck(r, username, email, password) ==
    /\ flight[r] = NoFlight
    /\ LET strength == ValidatePasswordStrength(password)
           Fail(error) ==
                /\ resp' = AuthReply("register", 0, 400, error, "")
                /\ UNCHANGED flight
       IN IF username = "" \/ email = "" \/ password = NoPassword
                THEN Fail("All fields are required")
          ELSE IF StrLen(username) < MinUsernameLen
                THEN Fail("Username must be at least 3 characters long")
          ELSE IF ~EmailFormatOk(email) THEN Fail("Invalid email format")
          ELSE IF ~strength.ok THEN Fail(strength.message)
          ELSE IF FindByUsername(username) # 0
                THEN Fail("Username already exists")
          ELSE IF FindByEmail(email) # 0
                THEN Fail("Email already registered")
          ELSE /\ flight' = [flight EXCEPT ![r] =
                        [NoFlight EXCEPT !.op = "register",
                            !.username = username, !.email = email,
                            !.password = password,
                            !.first = (Len(accounts) = 0), !.t = now]]
               /\ UNCHANGED resp
    /\ UNCHANGED <<keyVars, now, accounts, logins, sessions, outbox>>

\* RegisterCommit taking the user back when the mail cannot be sent
RegisterCommitUndoing(r, n, sent) ==
    /\ flight[r].op = "register"
    /\ LET f == flight[r]
           otp_code == GenerateOtp(n)
           id == Len(accounts) + 1
           user == [SetOtp(SetPassword(NewUser(id, f.username, f.email, now),
                                       f.password), otp_code, f.t)
                        EXCEPT !.is_admin = f.first, !.otp_verified = f.first]
       IN IF FindByUsername(f.username) # 0 \/ FindByEmail(f.email) # 0 THEN
                /\ resp' = AuthReply("register", 0, 500, "IntegrityError", "")
                /\ UNCHANGED <<accounts, outbox>>
          ELSE IF f.first THEN
                /\ accounts' = Append(accounts, user)
                /\ UNCHANGED outbox
                /\ resp' = AuthReply("register", id, 201, "",
                                    "Admin account created successfully!")
          ELSE IF sent THEN
                /\ accounts' = Append(accounts, user)
                /\ outbox' = Append(outbox, Mail("otp", f.email, otp_code))
                /\ resp' = AuthReply("register", id, 201, "",
                            "Registration successful! Please check your email for verification code.")
          ELSE
                /\ UNCHANGED <<accounts, outbox>>
                /\ resp' = AuthReply("register", 0, 500,
                                    "Failed to send verification email", "")
    /\ flight' = [flight EXCEPT ![r] = NoFlight]
    /\ UNCHANGED <<keyVars, now, logins, sessions>>

\* RegisterCommit handing the mail to the server before the commit
RegisterCommitMailFirst(r, n, sent) ==
    /\ flight[r].op = "register"
    /\ LET f == flight[r]
           otp_code == GenerateOtp(n)
           id == Len(accounts) + 1
           user == [SetOtp(SetPassword(NewUser(id, f.username, f.email, now),
                                       f.password), otp_code, f.t)
                        EXCEPT !.is_admin = f.first, !.otp_verified = f.first]
       IN /\ outbox' = IF ~f.first /\ sent
                            THEN Append(outbox, Mail("otp", f.email, otp_code))
                            ELSE outbox
          /\ IF FindByUsername(f.username) # 0 \/ FindByEmail(f.email) # 0 THEN
                /\ resp' = AuthReply("register", 0, 500, "IntegrityError", "")
                /\ UNCHANGED accounts
             ELSE /\ accounts' = Append(accounts, user)
                  /\ resp' = IF f.first
                        THEN AuthReply("register", id, 201, "",
                                    "Admin account created successfully!")
                        ELSE IF sent
                        THEN AuthReply("register", id, 201, "",
                                    "Registration successful! Please check your email for verification code.")
                        ELSE AuthReply("register", 0, 500,
                                    "Failed to send verification email", "")
    /\ flight' = [flight EXCEPT ![r] = NoFlight]
    /\ UNCHANGED <<keyVars, now, logins, sessions>>

\* RegisterCommit is db.session.add, commit and the mail (lines 58-71): the
\* INSERT fails on the unique indexes of username and email, an exception
\* register does not catch, so the request ends in the 500 handler
RegisterCommit(r, n, sent) ==
    /\ flight[r].op = "register"
    /\ LET f == flight[r]
           otp_code == GenerateOtp(n)
           id == Len(accounts) + 1
           user == [SetOtp(SetPassword(NewUser(id, f.username, f.email, now),
                                       f.password), otp_code, f.t)
                        EXCEPT !.is_admin = f.first, !.otp_verified = f.first]
       IN IF FindByUsername(f.username) # 0 \/ FindByEmail(f.email) # 0 THEN
                /\ resp' = AuthReply("register", 0, 500, "IntegrityError", "")
                /\ UNCHANGED <<accounts, outbox>>
          ELSE /\ accounts' = Append(accounts, user)
               /\ IF f.first THEN
                        /\ UNCHANGED outbox
                        /\ resp' = AuthReply("register", id, 201, "",
                                    "Admin account created successfully!")
                  ELSE IF sent THEN
                        /\ outbox' = Append(outbox,
                                        Mail("otp", f.email, otp_code))
                        /\ resp' = AuthReply("register", id, 201, "",
                                    "Registration successful! Please check your email for verification code.")
                  ELSE
                        /\ UNCHANGED outbox
                        /\ resp' = AuthReply("register", 0, 500,
                                    "Failed to send verification email", "")
    /\ flight' = [flight EXCEPT ![r] = NoFlight]
    /\ UNCHANGED <<keyVars, now, logins, sessions>>

\* verify_otp (the route) restarting the window of a code on a failed attempt
VerifyOtpRouteRenewing(uid, otp_code) ==
    /\ LET k == GetUser(uid)
           Fail(error) ==
                /\ resp' = AuthReply("verify_otp", uid, 400, error, "")
                /\ UNCHANGED accounts
       IN IF uid = 0 \/ otp_code = ""
                THEN Fail("User ID and OTP code are required")
          ELSE IF k = 0 THEN Fail("Invalid user")
          ELSE IF accounts[k].otp_verified THEN Fail("Email already verified")
          ELSE IF VerifyOtp(accounts[k], otp_code, now) THEN
                /\ accounts' = [accounts EXCEPT ![k].otp_verified = TRUE,
                                                ![k].otp_code = NoCode,
                                                ![k].otp_created_at = Null]
                /\ resp' = AuthReply("verify_otp", uid, 200, "",
                                     "Email verified successfully!")
          ELSE /\ resp' = AuthReply("verify_otp", uid, 400,
                                    "Invalid or expired OTP code", "")
               /\ accounts' = [accounts EXCEPT ![k].otp_created_at =
                                    IF @ = Null THEN @ ELSE now]
    /\ UNCHANGED <<keyVars, flight, now, logins, sessions, outbox>>

\* verify_otp (the route) without lines 91-92
VerifyOtpRouteKeepingCode(uid, otp_code) ==
    /\ LET k == GetUser(uid)
           Fail(error) ==
                /\ resp' = AuthReply("verify_otp", uid, 400, error, "")
                /\ UNCHANGED accounts
       IN IF uid = 0 \/ otp_code = ""
                THEN Fail("User ID and OTP code are required")
          ELSE IF k = 0 THEN Fail("Invalid user")
          ELSE IF accounts[k].otp_verified THEN Fail("Email already verified")
          ELSE IF VerifyOtp(accounts[k], otp_code, now) THEN
                /\ accounts' = [accounts EXCEPT ![k].otp_verified = TRUE]
                /\ resp' = AuthReply("verify_otp", uid, 200, "",
                                     "Email verified successfully!")
          ELSE Fail("Invalid or expired OTP code")
    /\ UNCHANGED <<keyVars, flight, now, logins, sessions, outbox>>

\* verify_otp (the route)
VerifyOtpRoute(uid, otp_code) ==
    /\ LET k == GetUser(uid)
           Fail(error) ==
                /\ resp' = AuthReply("verify_otp", uid, 400, error, "")
                /\ UNCHANGED accounts
       IN IF uid = 0 \/ otp_code = ""
                THEN Fail("User ID and OTP code are required")
          ELSE IF k = 0 THEN Fail("Invalid user")
          ELSE IF accounts[k].otp_verified THEN Fail("Email already verified")
          ELSE IF VerifyOtp(accounts[k], otp_code, now) THEN
                /\ accounts' = [accounts EXCEPT ![k].otp_verified = TRUE,
                                                ![k].otp_code = NoCode,
                                                ![k].otp_created_at = Null]
                /\ resp' = AuthReply("verify_otp", uid, 200, "",
                                     "Email verified successfully!")
          ELSE Fail("Invalid or expired OTP code")
    /\ UNCHANGED <<keyVars, flight, now, logins, sessions, outbox>>

\* resend_otp
ResendOtp(uid, n, sent) ==
    /\ LET k == GetUser(uid)
           otp_code == GenerateOtp(n)
           Fail(error) ==
                /\ resp' = AuthReply("resend_otp", uid, 400, error, "")
                /\ UNCHANGED <<accounts, outbox>>
       IN IF uid = 0 THEN Fail("User ID is required")
          ELSE IF k = 0 THEN Fail("Invalid user")
          ELSE IF accounts[k].otp_verified THEN Fail("Email already verified")
          ELSE /\ accounts' = [accounts EXCEPT
                                    ![k] = SetOtp(@, otp_code, now)]
               /\ IF sent THEN
                        /\ outbox' = Append(outbox,
                                        Mail("otp", accounts[k].email, otp_code))
                        /\ resp' = AuthReply("resend_otp", uid, 200, "",
                                             "New OTP sent to your email")
                  ELSE
                        /\ UNCHANGED outbox
                        /\ resp' = AuthReply("resend_otp", uid, 500,
                                    "Failed to send verification email", "")
    /\ UNCHANGED <<keyVars, flight, now, logins, sessions>>

\* LoginHistory(user_id, ip_address, user_agent, success)
LoginRow(user_id, ip_address, user_agent, success, t) ==
    [user_id |-> user_id, timestamp |-> t, ip_address |-> ip_address,
     user_agent |-> user_agent, success |-> success]

\* login treating the alert like the registration mail: without it the
\* login is undone and fails
LoginNeedingMail(username, password, ip_address, user_agent, sent) ==
    /\ LET k == FindByIdentifier(username)
       IN IF username = "" \/ password = NoPassword THEN
                /\ resp' = AuthReply("login", 0, 400,
                                "Username and password are required", "")
                /\ UNCHANGED <<accounts, logins, sessions, outbox>>
          ELSE IF k # 0 /\ CheckPassword(accounts[k], password) THEN
                IF ~accounts[k].otp_verified THEN
                    /\ resp' = AuthReply("login", 0, 403,
                                    "Please verify your email first", "")
                    /\ UNCHANGED <<accounts, logins, sessions, outbox>>
                ELSE IF ~sent THEN
                    /\ resp' = AuthReply("login", 0, 500,
                                    "Failed to send login alert", "")
                    /\ UNCHANGED <<accounts, logins, sessions, outbox>>
                ELSE
                    /\ logins' = Append(logins,
                            LoginRow(accounts[k].id, ip_address, user_agent,
                                     TRUE, now))
                    /\ accounts' = [accounts EXCEPT ![k].last_login = now]
                    /\ sessions' = sessions \cup {accounts[k].id}
                    /\ outbox' = Append(outbox,
                                    Mail("login_alert", accounts[k].email, ""))
                    /\ resp' = AuthReply("login", accounts[k].id, 200, "",
                                         "Login successful!")
          ELSE
                /\ logins' = IF k # 0
                        THEN Append(logins,
                                LoginRow(accounts[k].id, ip_address,
                                         user_agent, FALSE, now))
                        ELSE logins
                /\ resp' = AuthReply("login", 0, 401,
                                     "Invalid username or password", "")
                /\ UNCHANGED <<accounts, sessions, outbox>>
    /\ UNCHANGED <<keyVars, flight, now>>

\* login answering an unknown identifier in its own words
LoginNamingUnknownUser(username, password, ip_address, user_agent, sent) ==
    /\ LET k == FindByIdentifier(username)
       IN IF username = "" \/ password = NoPassword THEN
                /\ resp' = AuthReply("login", 0, 400,
                                "Username and password are required", "")
                /\ UNCHANGED <<accounts, logins, sessions, outbox>>
          ELSE IF k # 0 /\ CheckPassword(accounts[k], password) THEN
                IF ~accounts[k].otp_verified THEN
                    /\ resp' = AuthReply("login", 0, 403,
                                    "Please verify your email first", "")
                    /\ UNCHANGED <<accounts, logins, sessions, outbox>>
                ELSE
                    /\ logins' = Append(logins,
                            LoginRow(accounts[k].id, ip_address, user_agent,
                                     TRUE, now))
                    /\ accounts' = [accounts EXCEPT ![k].last_login = now]
                    /\ sessions' = sessions \cup {accounts[k].id}
                    /\ outbox' = IF sent
                            THEN Append(outbox,
                                    Mail("login_alert", accounts[k].email, ""))
                            ELSE outbox
                    /\ resp' = AuthReply("login", accounts[k].id, 200, "",
                                         "Login successful!")
          ELSE
                /\ logins' = IF k # 0
                        THEN Append(logins,
                                LoginRow(accounts[k].id, ip_address,
                                         user_agent, FALSE, now))
                        ELSE logins
                /\ resp' = AuthReply("login", 0, 401,
                        IF k # 0 THEN "Invalid username or password"
                                 ELSE "Unknown user", "")
                /\ UNCHANGED <<accounts, sessions, outbox>>
    /\ UNCHANGED <<keyVars, flight, now>>

\* login without the check of otp_verified
LoginSkippingVerification(username, password, ip_address, user_agent, sent) ==
    /\ LET k == FindByIdentifier(username)
       IN IF username = "" \/ password = NoPassword THEN
                /\ resp' = AuthReply("login", 0, 400,
                                "Username and password are required", "")
                /\ UNCHANGED <<accounts, logins, sessions, outbox>>
          ELSE IF k # 0 /\ CheckPassword(accounts[k], password) THEN
                IF FALSE THEN
                    /\ resp' = AuthReply("login", 0, 403,
                                    "Please verify your email first", "")
                    /\ UNCHANGED <<accounts, logins, sessions, outbox>>
                ELSE
                    /\ logins' = Append(logins,
                            LoginRow(accounts[k].id, ip_address, user_agent,
                                     TRUE, now))
                    /\ accounts' = [accounts EXCEPT ![k].last_login = now]
                    /\ sessions' = sessions \cup {accounts[k].id}
                    /\ outbox' = IF sent
                            THEN Append(outbox,
                                    Mail("login_alert", accounts[k].email, ""))
                            ELSE outbox
                    /\ resp' = AuthReply("login", accounts[k].id, 200, "",
                                         "Login successful!")
          ELSE
                /\ logins' = IF k # 0
                        THEN Append(logins,
                                LoginRow(accounts[k].id, ip_address,
                                         user_agent, FALSE, now))
                        ELSE logins
                /\ resp' = AuthReply("login", 0, 401,
                                     "Invalid username or password", "")
                /\ UNCHANGED <<accounts, sessions, outbox>>
    /\ UNCHANGED <<keyVars, flight, now>>

\* login
Login(username, password, ip_address, user_agent, sent) ==
    /\ LET k == FindByIdentifier(username)
       IN IF username = "" \/ password = NoPassword THEN
                /\ resp' = AuthReply("login", 0, 400,
                                "Username and password are required", "")
                /\ UNCHANGED <<accounts, logins, sessions, outbox>>
          ELSE IF k # 0 /\ CheckPassword(accounts[k], password) THEN
                IF ~accounts[k].otp_verified THEN
                    /\ resp' = AuthReply("login", 0, 403,
                                    "Please verify your email first", "")
                    /\ UNCHANGED <<accounts, logins, sessions, outbox>>
                ELSE
                    /\ logins' = Append(logins,
                            LoginRow(accounts[k].id, ip_address, user_agent,
                                     TRUE, now))
                    /\ accounts' = [accounts EXCEPT ![k].last_login = now]
                    /\ sessions' = sessions \cup {accounts[k].id}
                    /\ outbox' = IF sent
                            THEN Append(outbox,
                                    Mail("login_alert", accounts[k].email, ""))
                            ELSE outbox
                    /\ resp' = AuthReply("login", accounts[k].id, 200, "",
                                         "Login successful!")
          ELSE
                /\ logins' = IF k # 0
                        THEN Append(logins,
                                LoginRow(accounts[k].id, ip_address,
                                         user_agent, FALSE, now))
                        ELSE logins
                /\ resp' = AuthReply("login", 0, 401,
                                     "Invalid username or password", "")
                /\ UNCHANGED <<accounts, sessions, outbox>>
    /\ UNCHANGED <<keyVars, flight, now>>

\* login_required without a session: LoginManager.unauthorized redirects to
\* login_view
LoginRedirect(op, uid) ==
    resp' = AuthReply(op, uid, 302, "", "auth.login")

\* logout
Logout(uid) ==
    /\ IF uid \in sessions THEN sessions' = sessions \ {uid}
                           ELSE UNCHANGED sessions
    /\ LoginRedirect("logout", uid)
    /\ UNCHANGED <<keyVars, flight, now, accounts, logins, outbox>>

\* login_required and require_verified_user in front of a route called with
\* the session cookie of user uid
Guarded(op, uid, route) ==
    IF uid \notin sessions \/ GetUser(uid) = 0 THEN
        /\ LoginRedirect(op, uid)
        /\ UNCHANGED <<keyVars, authVars, now>>
    ELSE IF ~accounts[uid].otp_verified THEN
        /\ resp' = AuthReply(op, uid, 403, "Email verification required", "")
        /\ UNCHANGED <<keyVars, authVars, now>>
    ELSE route

\* update_email; uid is current_user
UpdateEmail(uid, new_email, password, n, sent) ==
    /\ LET k == GetUser(uid)
           otp_code == GenerateOtp(n)
           Fail(code, error) ==
                /\ resp' = AuthReply("update_email", uid, code, error, "")
                /\ UNCHANGED <<accounts, outbox>>
       IN IF uid \notin sessions \/ k = 0 THEN
                /\ LoginRedirect("update_email", uid)
                /\ UNCHANGED <<accounts, outbox>>
          ELSE IF ~accounts[k].otp_verified
                THEN Fail(403, "Email verification required")
          ELSE IF new_email = "" \/ password = NoPassword
                THEN Fail(400, "Email and password are required")
          ELSE IF ~EmailFormatOk(new_email)
                THEN Fail(400, "Invalid email format")
          ELSE IF ~CheckPassword(accounts[k], password)
                THEN Fail(400, "Password is incorrect")
          ELSE IF FindByEmail(new_email) # 0
                THEN Fail(400, "Email already registered")
          ELSE /\ accounts' = [accounts EXCEPT
                    ![k] = [SetOtp(@, otp_code, now) EXCEPT
                                !.otp_verified = FALSE, !.email = new_email]]
               /\ IF sent THEN
                        /\ outbox' = Append(outbox,
                                        Mail("otp", new_email, otp_code))
                        /\ resp' = AuthReply("update_email", uid, 200, "",
                            "OTP sent to new email. Please verify to complete the change.")
                  ELSE
                        /\ UNCHANGED outbox
                        /\ resp' = AuthReply("update_email", uid, 500,
                                    "Failed to send verification email", "")
    /\ UNCHANGED <<keyVars, flight, now, logins, sessions>>

\* change_password behind its two decorators; uid is current_user
ChangePassword(uid, current_password, new_password, confirm_password) ==
    /\ LET k == GetUser(uid)
           strength == ValidatePasswordStrength(new_password)
           Fail(error) ==
                /\ resp' = AuthReply("change_password", uid, 400, error, "")
                /\ UNCHANGED accounts
       IN IF current_password = NoPassword \/ new_password = NoPassword
                     \/ confirm_password = NoPassword
                THEN Fail("All fields are required")
          ELSE IF new_password # confirm_password
                THEN Fail("New passwords do not match")
          ELSE IF ~CheckPassword(accounts[k], current_password)
                THEN Fail("Current password is incorrect")
          ELSE IF ~strength.ok THEN Fail(strength.message)
          ELSE /\ accounts' = [accounts EXCEPT
                                    ![k] = SetPassword(@, new_password)]
               /\ resp' = AuthReply("change_password", uid, 200, "",
                                    "Password changed successfully!")
    /\ UNCHANGED <<keyVars, flight, now, logins, sessions, outbox>>

\* toggle_user_verification (routes/admin.py) behind login_required and
\* require_admin; uid is current_user
ToggleUserVerification(uid, user_id) ==
    /\ IF uid \notin sessions \/ GetUser(uid) = 0 THEN
            /\ LoginRedirect("toggle_verification", uid)
            /\ UNCHANGED accounts
       ELSE IF ~accounts[uid].is_admin THEN
            /\ resp' = AuthReply("toggle_verification", uid, 403,
                                 "Admin access required", "")
            /\ UNCHANGED accounts
       ELSE IF GetUser(user_id) = 0 THEN
            /\ resp' = AuthReply("toggle_verification", uid, 404,
                                 "Not Found", "")
            /\ UNCHANGED accounts
       ELSE
            /\ accounts' = [accounts EXCEPT
                                ![user_id].otp_verified = ~@]
            /\ resp' = AuthReply("toggle_verification", uid, 200, "",
                            IF accounts'[user_id].otp_verified
                                THEN "User verification enabled"
                                ELSE "User verification disabled")
    /\ UNCHANGED <<keyVars, flight, now, logins, sessions, outbox>>

\* forgot_password
ForgotPassword(email, n, sent) ==
    /\ LET k == FindByEmail(email)
           otp_code == GenerateOtp(n)
       IN IF email = "" THEN
                /\ resp' = AuthReply("forgot_password", 0, 400,
                                     "Email is required", "")
                /\ UNCHANGED <<accounts, outbox>>
          ELSE IF k = 0 THEN
                /\ resp' = AuthReply("forgot_password", 0, 200, "",
                        "If the email exists, a reset code has been sent")
                /\ UNCHANGED <<accounts, outbox>>
          ELSE /\ accounts' = [accounts EXCEPT
                                    ![k] = SetOtp(@, otp_code, now)]
               /\ outbox' = IF sent
                        THEN Append(outbox, Mail("otp", email, otp_code))
                        ELSE outbox
               /\ resp' = AuthReply("forgot_password", accounts[k].id, 200,
                        "", "If the email exists, a reset code has been sent")
    /\ UNCHANGED <<keyVars, flight, now, logins, sessions>>

\* reset_password
ResetPassword(uid, otp_code, new_password, confirm_password) ==
    /\ LET k == GetUser(uid)
           strength == ValidatePasswordStrength(new_password)
           Fail(error) ==
                /\ resp' = AuthReply("reset_password", uid, 400, error, "")
                /\ UNCHANGED accounts
       IN IF uid = 0 \/ otp_code = "" \/ new_password = NoPassword
                     \/ confirm_password = NoPassword
                THEN Fail("All fields are required")
          ELSE IF new_password # confirm_password
                THEN Fail("Passwords do not match")
          ELSE IF k = 0 THEN Fail("Invalid user")
          ELSE IF ~VerifyOtp(accounts[k], otp_code, now)
                THEN Fail("Invalid or expired OTP code")
          ELSE IF ~strength.ok THEN Fail(strength.message)
          ELSE /\ accounts' = [accounts EXCEPT
                    ![k] = [SetPassword(@, new_password) EXCEPT
                                !.otp_code = NoCode,
                                !.otp_created_at = Null]]
               /\ resp' = AuthReply("reset_password", uid, 200, "",
                                    "Password reset successful!")
    /\ UNCHANGED <<keyVars, flight, now, logins, sessions, outbox>>

\* verify_otp in two steps, for requests that overlap.  VerifyLoad is the
\* request up to user.verify_otp on the row it loaded (lines 75-89)
VerifyLoad(r, uid, otp_code) ==
    /\ flight[r] = NoFlight
    /\ LET k == GetUser(uid)
           Fail(error) ==
                /\ resp' = AuthReply("verify_otp", uid, 400, error, "")
                /\ UNCHANGED flight
       IN IF uid = 0 \/ otp_code = ""
                THEN Fail("User ID and OTP code are required")
          ELSE IF k = 0 THEN Fail("Invalid user")
          ELSE IF accounts[k].otp_verified THEN Fail("Email already verified")
          ELSE IF VerifyOtp(accounts[k], otp_code, now) THEN
                /\ flight' = [flight EXCEPT ![r] =
                        [NoFlight EXCEPT !.op = "verify_otp", !.uid = uid,
                                         !.otp_code = otp_code, !.t = now]]
                /\ UNCHANGED resp
          ELSE Fail("Invalid or expired OTP code")
    /\ UNCHANGED <<keyVars, now, accounts, logins, sessions, outbox>>

\* VerifyCommit is the three assignments and the commit (lines 90-95): an
\* UPDATE of the row by its id, whatever it holds by then
VerifyCommit(r) ==
    /\ flight[r].op = "verify_otp"
    /\ LET k == GetUser(flight[r].uid)
       IN /\ accounts' = [accounts EXCEPT ![k].otp_verified = TRUE,
                                          ![k].otp_code = NoCode,
                                          ![k].otp_created_at = Null]
          /\ resp' = AuthReply("verify_otp", flight[r].uid, 200, "",
                               "Email verified successfully!")
    /\ flight' = [flight EXCEPT ![r] = NoFlight]
    /\ UNCHANGED <<keyVars, now, logins, sessions, outbox>>

\* reset_password in two steps.  ResetLoad is the request up to the
\* strength check on the row it loaded (lines 300-322)
ResetLoad(r, uid, otp_code, new_password, confirm_password) ==
    /\ flight[r] = NoFlight
    /\ LET k == GetUser(uid)
           strength == ValidatePasswordStrength(new_password)
           Fail(error) ==
                /\ resp' = AuthReply("reset_password", uid, 400, error, "")
                /\ UNCHANGED flight
       IN IF uid = 0 \/ otp_code = "" \/ new_password = NoPassword
                     \/ confirm_password = NoPassword
                THEN Fail("All fields are required")
          ELSE IF new_password # confirm_password
                THEN Fail("Passwords do not match")
          ELSE IF k = 0 THEN Fail("Invalid user")
          ELSE IF ~VerifyOtp(accounts[k], otp_code, now)
                THEN Fail("Invalid or expired OTP code")
          ELSE IF ~strength.ok THEN Fail(strength.message)
          ELSE /\ flight' = [flight EXCEPT ![r] =
                        [NoFlight EXCEPT !.op = "reset_password",
                            !.uid = uid, !.otp_code = otp_code,
                            !.password = new_password, !.t = now]]
               /\ UNCHANGED resp
    /\ UNCHANGED <<keyVars, now, accounts, logins, sessions, outbox>>

\* ResetCommit is set_password, the two assignments and the commit (lines
\* 325-330)
ResetCommit(r) ==
    /\ flight[r].op = "reset_password"
    /\ LET k == GetUser(flight[r].uid)
       IN /\ accounts' = [accounts EXCEPT
                    ![k] = [SetPassword(@, flight[r].password) EXCEPT
                                !.otp_code = NoCode,
                                !.otp_created_at = Null]]
          /\ resp' = AuthReply("reset_password", flight[r].uid, 200, "",
                               "Password reset successful!")
    /\ flight' = [flight EXCEPT ![r] = NoFlight]
    /\ UNCHANGED <<keyVars, now, logins, sessions, outbox>>

\* the clock between two requests of the auth routes, in seconds
Elapse(d, limit) ==
    /\ now + d <= limit
    /\ now' = now + d
    /\ UNCHANGED <<keyVars, authVars, resp>>

\* --------------------------------------------------------- specifications
Presentable == {NoCred} \cup {RawKey(n) : n \in 1..(issued + 1)}
Addresses == {"10.0.0.1", "10.0.0.2"}
Agents == {"curl"}
NameInputs == {NoName, GivenName("prod")}
ExpInputs == {EmptyField, TextField, IntField(0 - 1), IntField(0),
              IntField(1), IntField(MaxExpiryDays),
              IntField(MaxExpiryDays + 1)}
StatusInputs == StatusValues \cup {"deleted"}

\* requests are interchangeable: a new one takes the lowest idle slot
FreeSlot(r) == pc[r] = "idle" /\ \A q \in Req : q < r => pc[q] # "idle"

\* requests between their lookup and their commit
InFlight == {q \in Req : pc[q] # "idle"}
Creating == {q \in Req : pc[q] = "create"}

\* The validation path: one user's keys (created with or without an expiry,
\* switched between the three statuses), the clock, and concurrent requests
\* through require_api_key.
MwRequest(addresses) ==
    \E r \in Req, key \in Presentable, ip \in addresses, ua \in Agents :
        /\ FreeSlot(r)
        /\ Len(usage) + Cardinality(InFlight) < MaxUsage
        /\ MwLookup(r, key, ip, ua)

MwCreate ==
    \E r \in Req, f \in ExpInputs :
        /\ FreeSlot(r)
        /\ Len(keys) + Cardinality(Creating) < MwKeys
        /\ CreateCheck(r, 1, NoName, f)

MwStatus == \E i \in 1..MwKeys, s \in StatusValues : UpdateKeyStatus(1, i, s)

MwFinish(r) == MwReject(r) \/ MwAccept(r) \/ CreateCommit(r, issued + 1)

MwNext ==
    \/ MwRequest({"10.0.0.1"})
    \/ MwCreate
    \/ MwStatus
    \/ \E r \in Req : MwFinish(r)
    \/ Tick(SecondsPerDay, MaxDays)

MwSpec == Init /\ [][MwNext]_vars

\* The same requests one at a time: a request starts only when no other is
\* between its lookup and its commit.
SeqNext ==
    \/ InFlight = {} /\ (MwRequest(Addresses) \/ MwCreate \/ MwStatus)
    \/ \E r \in Req : MwFinish(r)
    \/ Tick(SecondsPerDay, MaxDays)

SeqSpec == Init /\ [][SeqNext]_vars

\* The key lifecycle: every owner-scoped operation of routes/api_keys.py by
\* two users, with the validation middleware and the clock.
KeyIds == 1..(KeysRows + 1)

\* the update forms: a new expiry, a new name and no expiry, a bad expiry
KeysUpdates == {<<NoName, IntField(1)>>, <<GivenName("prod"), EmptyField>>,
                <<NoName, TextField>>}

KeysCreate ==
    \E r \in Req, u \in Users, f \in {EmptyField, IntField(1)} :
        /\ FreeSlot(r)
        /\ Len(keys) + Cardinality(Creating) < KeysRows
        /\ CreateCheck(r, u, NoName, f)

KeysRequest ==
    \E r \in Req, key \in Presentable, ua \in Agents :
        /\ FreeSlot(r)
        /\ Len(usage) + Cardinality(InFlight) < KeysUsage
        /\ MwLookup(r, key, "10.0.0.1", ua)

KeysNext ==
    \/ KeysCreate
    \/ \E r \in Req, n \in 1..MaxIssued : CreateCommit(r, n)
    \/ KeysRequest
    \/ \E r \in Req : MwReject(r)
    \/ \E r \in Req : MwAccept(r)
    \/ \E u \in Users : ListKeys(u)
    \/ \E u \in Users, i \in KeyIds : GetKey(u, i)
    \/ \E u \in Users, i \in KeyIds, s \in StatusInputs :
            UpdateKeyStatus(u, i, s)
    \/ \E u \in Users, i \in KeyIds : DeleteKey(u, i)
    \/ \E u \in Users, i \in KeyIds : GetKeyUsage(u, i)
    \/ \E u \in Users, i \in KeyIds, n \in 1..MaxIssued :
            RegenerateKey(u, i, n)
    \/ \E u \in Users, i \in KeyIds, form \in KeysUpdates :
            UpdateKey(u, i, form[1], form[2])

KeysSpec == Init /\ [][KeysNext]_vars

\* The life of a key: one user's key is created, switched by its owner and
\* by an admin, deleted, regenerated, updated and presented to the
\* middleware while the clock advances.
StatusForms == {"inactive", " Active ", "REVOKED", "deleted"}
LifeIds == 1..LifeKeys

LifeCreate ==
    \E r \in Req, f \in {EmptyField, IntField(1)} :
        /\ FreeSlot(r)
        /\ Len(keys) + Cardinality(Creating) < LifeKeys
        /\ CreateCheck(r, 1, NoName, f)

LifeRequest ==
    \E r \in Req, key \in Presentable, ua \in Agents :
        /\ FreeSlot(r)
        /\ Len(usage) + Cardinality(InFlight) < LifeUsage
        /\ MwLookup(r, key, "10.0.0.1", ua)

LifeNext ==
    \/ LifeCreate
    \/ \E r \in Req : CreateCommit(r, issued + 1)
    \/ LifeRequest
    \/ \E r \in Req : MwReject(r)
    \/ \E r \in Req : MwAccept(r)
    \/ \E i \in LifeIds, s \in StatusForms : UpdateKeyStatus(1, i, StripLower(s))
    \/ \E i \in LifeIds, s \in StatusForms : AdminUpdateKeyStatus(i, StripLower(s))
    \/ \E i \in LifeIds : DeleteKey(1, i)
    \/ \E i \in LifeIds, n \in 1..MaxIssued : RegenerateKey(1, i, n)
    \/ \E i \in LifeIds, form \in KeysUpdates : UpdateKey(1, i, form[1], form[2])
    \/ Tick(SecondsPerDay, MaxDays)

LifeSpec == Init /\ [][LifeNext]_vars

\* The key limit: Create alone, by user 1 up to and past the limit and by
\* the other users for a few keys; a draw of the generator is new or repeats
\* the first one.
QuotaCreate ==
    \E r \in Req, u \in Users, f \in {EmptyField, IntField(0)} :
        /\ FreeSlot(r)
        /\ u = 1 \/ KeyCount(u) + Cardinality(Creating) < QuotaOthers
        /\ CreateCheck(r, u, GivenName("prod"), f)

QuotaNext ==
    \/ QuotaCreate
    \/ \E r \in Req, n \in {1, issued + 1} : CreateCommit(r, n)

QuotaSpec == Init /\ [][QuotaNext]_vars

\* Soft deletion against the key limit: the Creates of the key limit, with
\* the first key presented to the middleware once and deleted by its owner.
DeleteRequest ==
    \E r \in Req :
        /\ FreeSlot(r)
        /\ Len(usage) + Cardinality(InFlight \ Creating) < DeleteUsage
        /\ MwLookup(r, RawKey(1), "10.0.0.1", "curl")

DeleteNext ==
    \/ \E r \in Req, u \in Users :
        /\ FreeSlot(r)
        /\ u = 1 \/ KeyCount(u) + Cardinality(Creating) < QuotaOthers
        /\ CreateCheck(r, u, GivenName("prod"), EmptyField)
    \/ \E r \in Req : CreateCommit(r, issued + 1)
    \/ DeleteRequest
    \/ \E r \in Req : MwReject(r)
    \/ \E r \in Req : MwAccept(r)
    \/ \E u \in Users : DeleteKey(u, 1)

DeleteSpec == Init /\ [][DeleteNext]_vars

\* the auth routes, one request at a time
Strong == PasswordOf("LongEnough1")
Other == PasswordOf("Changed2Pass")
Weak == PasswordOf("short1")
OtpDraws == {OtpLow, OtpHigh}
OtpForms == {"", GenerateOtp(OtpLow), GenerateOtp(OtpHigh)}
\* the users registered after the first one, who is the administrator
UserIds == 2..MaxAccounts

\* the clock stands at 0, at the end of the window, or past it
AuthElapse ==
    \E d \in {1, OtpWindow} :
        /\ d = 1 <=> now >= OtpWindow
        /\ Elapse(d, MaxClock)

\* the one-time codes: issued by four routes, consumed by two
OtpRegisterForms == {<<"alice", "alice@x.io">>, <<"bob", "bob@x.io">>}
OtpResetForms == {<<Other, Other>>, <<Weak, Weak>>}

\* the mail server takes MaxMail messages and fails afterwards
Sent == {Len(outbox) < MaxMail}

OtpNext ==
    \/ \E form \in OtpRegisterForms, n \in OtpDraws, sent \in Sent :
            /\ Len(accounts) < MaxAccounts
            /\ Register(form[1], form[2], Strong, n, sent)
    \/ \E uid \in UserIds, otp_code \in OtpForms : VerifyOtpRoute(uid, otp_code)
    \/ \E uid \in UserIds, n \in OtpDraws, sent \in Sent :
            ResendOtp(uid, n, sent)
    \/ /\ Len(logins) < OtpLogins
       /\ Login("bob", Strong, "10.0.0.1", "curl", FALSE)
    \/ \E uid \in UserIds, n \in OtpDraws, sent \in Sent :
            UpdateEmail(uid, "carol@x.io", Strong, n, sent)
    \/ \E email \in {"bob@x.io", "carol@x.io"}, n \in OtpDraws, sent \in Sent :
            ForgotPassword(email, n, sent)
    \/ \E uid \in UserIds, otp_code \in OtpForms, form \in OtpResetForms :
            ResetPassword(uid, otp_code, form[1], form[2])
    \/ AuthElapse

OtpSpec == Init /\ [][OtpNext]_vars

\* login attempts against the registered users
LoginRegisterForms == {<<"alice", "alice@x.io">>, <<"bob", "bob@x.io">>}
LoginIdentifiers == {"", "alice", "bob", "bob@x.io", "carol"}
LoginPasswords == {NoPassword, Strong, Other}

LoginNext ==
    \/ \E form \in LoginRegisterForms, n \in OtpDraws, sent \in Sent :
            /\ Len(accounts) < MaxAccounts
            /\ Register(form[1], form[2], Strong, n, sent)
    \/ \E uid \in UserIds, otp_code \in OtpForms : VerifyOtpRoute(uid, otp_code)
    \/ \E username \in LoginIdentifiers, password \in LoginPasswords,
          sent \in Sent :
            /\ Len(logins) < MaxLogins
            /\ Login(username, password, "10.0.0.1", "curl", sent)
    \/ \E uid \in 1..MaxAccounts : Logout(uid)
    \/ AuthElapse

LoginSpec == Init /\ [][LoginNext]_vars

\* passwords chosen at registration and at reset
PasswordTexts ==
    {"short1", "LongEnough1", "Changed2Pass", "longenough1", "LONGENOUGH1",
     "LongEnough", "Short1A", "12345678"}
PasswordForms == {<<"alice", "alice@x.io">>, <<"bob", "bob@x.io">>}

PasswordNext ==
    \/ \E form \in PasswordForms, text \in PasswordTexts, sent \in Sent :
            /\ Len(accounts) < MaxAccounts
            /\ Register(form[1], form[2], PasswordOf(text), OtpLow, sent)
    \/ \E email \in {"alice@x.io", "bob@x.io"}, sent \in Sent :
            ForgotPassword(email, OtpHigh, sent)
    \/ \E uid \in 1..MaxAccounts, text \in PasswordTexts :
            ResetPassword(uid, GenerateOtp(OtpHigh), PasswordOf(text),
                          PasswordOf(text))
    \/ \E username \in {"alice", "bob"}, text \in PasswordTexts :
            /\ Len(logins) < MaxLogins
            /\ Login(username, PasswordOf(text), "10.0.0.1", "curl", FALSE)

PasswordSpec == Init /\ [][PasswordNext]_vars

\* two users, two keys, and the operations that write key rows
PairIds == 1..PairKeys

PairCreate ==
    \E r \in {1}, u \in Users :
        /\ FreeSlot(r)
        /\ Len(keys) + Cardinality(Creating) < PairKeys
        /\ CreateCheck(r, u, NoName, EmptyField)

PairNext ==
    \/ PairCreate
    \/ \E r \in Req, n \in 1..MaxIssued : CreateCommit(r, n)
    \/ \E u \in Users, i \in PairIds : UpdateKeyStatus(u, i, "inactive")
    \/ \E u \in Users, i \in PairIds : DeleteKey(u, i)
    \/ \E u \in Users, i \in PairIds, n \in 1..MaxIssued :
            RegenerateKey(u, i, n)
    \/ \E u \in Users, i \in PairIds :
            UpdateKey(u, i, GivenName("prod"), EmptyField)

PairSpec == Init /\ [][PairNext]_vars

\* registrations that overlap
RaceForms ==
    {<<"alice", "alice@x.io">>, <<"alice", "bob@x.io">>,
     <<"bob", "bob@x.io">>, <<"bob", "alice@x.io">>}

RegRaceNext ==
    \/ \E r \in Req, form \in RaceForms, password \in {Strong, Weak} :
            /\ Len(accounts) < RaceAccounts
            /\ RegisterCheck(r, form[1], form[2], password)
    \/ \E r \in Req, n \in OtpDraws, sent \in BOOLEAN :
            RegisterCommit(r, n, sent)
    \/ \E username \in {"alice", "bob"} :
            /\ Len(logins) < MaxLogins
            /\ Login(username, Strong, "10.0.0.1", "curl", FALSE)

RegRaceSpec == Init /\ [][RegRaceNext]_vars

\* requests that consume a code and overlap
OtpRaceNext ==
    \/ \E form \in OtpRegisterForms, sent \in Sent :
            /\ Len(accounts) < MaxAccounts
            /\ Register(form[1], form[2], Strong, OtpLow, sent)
    \/ \E email \in {"alice@x.io", "bob@x.io"}, sent \in Sent :
            ForgotPassword(email, OtpHigh, sent)
    \/ \E r \in Req, uid \in UserIds, otp_code \in OtpForms :
            VerifyLoad(r, uid, otp_code)
    \/ \E r \in Req : VerifyCommit(r)
    \/ \E r \in Req, uid \in UserIds, otp_code \in OtpForms,
          new_password \in {Other, Weak} :
            ResetLoad(r, uid, otp_code, new_password, new_password)
    \/ \E r \in Req : ResetCommit(r)

OtpRaceSpec == Init /\ [][OtpRaceNext]_vars

\* the seven routes that notify by mail, called by the administrator (user
\* 1) and a second user; the mail server may fail at any time
MailForms ==
    {<<"alice", "alice@x.io">>, <<"bob", "bob@x.io">>, <<"carol", "bob@x.io">>}
MailSent == IF Len(outbox) < MaxMail THEN BOOLEAN ELSE {FALSE}

MailNext ==
    \/ \E r \in Req, form \in MailForms :
            /\ \/ Len(accounts) < MaxAccounts
               \/ FindByUsername(form[1]) # 0
               \/ FindByEmail(form[2]) # 0
            /\ RegisterCheck(r, form[1], form[2], Strong)
    \/ \E r \in Req, sent \in MailSent : RegisterCommit(r, OtpLow, sent)
    \/ \E uid \in UserIds, sent \in MailSent : ResendOtp(uid, OtpHigh, sent)
    \/ \E sent \in MailSent : ForgotPassword("bob@x.io", OtpHigh, sent)
    \/ \E username \in {"alice", "bob"}, sent \in MailSent :
            /\ Len(logins) < MailLogins
            /\ Login(username, Strong, "10.0.0.1", "curl", sent)
    \/ \E sent \in MailSent :
            UpdateEmail(1, "carol@x.io", Strong, OtpHigh, sent)
    \/ \E r \in Req :
            /\ FreeSlot(r)
            /\ Len(keys) + Cardinality(Creating) < MailKeys
            /\ Guarded("generate", 1, CreateCheck(r, 1, NoName, EmptyField))
    \/ \E r \in Req : CreateCommit(r, issued + 1)
    \/ /\ issued < MailIssued
       /\ Guarded("regenerate", 1, RegenerateKey(1, 1, issued + 1))

MailSpec == Init /\ [][MailNext]_vars

\* a change of address and what the user may do afterwards: the guarded
\* routes, login, verify_otp, and the administrator's switch
GateUsers == 1..GateAccounts
GateForms == {<<"alice", "alice@x.io">>, <<"bob", "bob@x.io">>}

GateNext ==
    \/ \E form \in GateForms, sent \in Sent :
            /\ Len(accounts) < GateAccounts
            /\ Register(form[1], form[2], Strong, OtpLow, sent)
    \/ \E uid \in GateUsers, n \in OtpDraws :
            VerifyOtpRoute(uid, GenerateOtp(n))
    \/ \E username \in {"alice", "bob"} :
            /\ Len(logins) < MaxLogins
            /\ Login(username, Strong, "10.0.0.1", "curl", FALSE)
    \/ \E uid \in GateUsers, sent \in Sent :
            UpdateEmail(uid, "carol@x.io", Strong, OtpHigh, sent)
    \/ \E uid \in GateUsers :
            Guarded("change_password", uid,
                    ChangePassword(uid, Strong, Strong, Strong))
    \/ \E uid, user_id \in GateUsers : ToggleUserVerification(uid, user_id)
    \/ \E r \in Req, uid \in GateUsers :
            /\ FreeSlot(r)
            /\ Len(keys) + Cardinality(Creating) < GateKeys
            /\ Guarded("generate", uid, CreateCheck(r, uid, NoName, EmptyField))
    \/ \E r \in Req : CreateCommit(r, issued + 1)
    \/ \E uid \in GateUsers : Guarded("list", uid, ListKeys(uid))
    \/ \E uid \in GateUsers : Guarded("get", uid, GetKey(uid, 1))
    \/ \E uid \in GateUsers :
            Guarded("status", uid, UpdateKeyStatus(uid, 1, "inactive"))
    \/ \E uid \in GateUsers : Guarded("delete", uid, DeleteKey(uid, 1))
    \/ \E uid \in GateUsers : Guarded("usage", uid, GetKeyUsage(uid, 1))
    \/ \E uid \in GateUsers :
            /\ issued < GateIssued
            /\ Guarded("regenerate", uid, RegenerateKey(uid, 1, issued + 1))
    \/ \E uid \in GateUsers :
            Guarded("update", uid, UpdateKey(uid, 1, GivenName("prod"), EmptyField))

GateSpec == Init /\ [][GateNext]_vars

\* The audit trail: one user's key, presented by overlapping requests from
\* two addresses while its owner switches, deletes and regenerates it.
StampRequest ==
    \E r \in Req, key \in Presentable, ip \in Addresses, ua \in Agents :
        /\ FreeSlot(r)
        /\ Len(usage) + Cardinality(InFlight) < StampUsage
        /\ MwLookup(r, key, ip, ua)

StampNext ==
    \/ StampRequest
    \/ \E r \in Req :
            /\ FreeSlot(r)
            /\ Len(keys) + Cardinality(Creating) < MwKeys
            /\ CreateCheck(r, 1, NoName, EmptyField)
    \/ \E r \in Req : CreateCommit(r, issued + 1)
    \/ \E r \in Req : MwReject(r)
    \/ \E r \in Req : MwAccept(r)
    \/ \E s \in {"active", "inactive"} : UpdateKeyStatus(1, 1, s)
    \/ DeleteKey(1, 1)
    \/ issued < StampIssued /\ RegenerateKey(1, 1, issued + 1)

StampSpec == Init /\ [][StampNext]_vars

\* Update: one user's keys are created and updated with every kind of
\* expiry value; each rejected value comes with a new name.
UpdateForms ==
    {<<NoName, IntField(1)>>, <<GivenName("prod"), EmptyField>>,
     <<GivenName("prod"), IntField(MaxExpiryDays)>>,
     <<GivenName("stage"), TextField>>, <<GivenName("stage"), IntField(0)>>,
     <<GivenName("stage"), IntField(0 - 1)>>,
     <<GivenName("stage"), IntField(MaxExpiryDays + 1)>>}

UpdateNext ==
    \/ \E r \in Req, f \in {EmptyField, IntField(1)} :
            /\ FreeSlot(r)
            /\ Len(keys) + Cardinality(Creating) < UpdateRows
            /\ CreateCheck(r, 1, NoName, f)
    \/ \E r \in Req : CreateCommit(r, issued + 1)
    \/ \E i \in 1..(UpdateRows + 1), form \in UpdateForms :
            UpdateKey(1, i, form[1], form[2])
    \/ Tick(SecondsPerDay, MaxDays)

UpdateSpec == Init /\ [][UpdateNext]_vars

\* every operation together
Next == MwNext \/ KeysNext \/ QuotaNext \/ LifeNext \/ DeleteNext
            \/ OtpNext \/ LoginNext \/ PasswordNext \/ PairNext
            \/ RegRaceNext \/ OtpRaceNext \/ MailNext \/ GateNext \/ StampNext \/ UpdateNext

Spec == Init /\ [][Next]_vars

\* ------------------------------------------------ the validation claims
AllIdle == \A r \in Req : pc[r] = "idle"

\* the requests the view function ran for with key k bound
Accepted(k) == Cardinality({j \in 1..Len(calls) : calls[j] = k})

RowsOf(k, status) ==
    Cardinality({j \in 1..Len(usage) :
                    usage[j].key_id = k /\ usage[j].status = status})

\* C1: once two requests that presented the same valid key have both
\* completed, the key's usage_count is its initial value (0, the key being
\* new) + 2 and the key has exactly 2 success rows
C1_NoLostIncrement ==
    AllIdle =>
        \A k \in 1..Len(keys) :
            Accepted(k) = 2 =>
                keys[k].usage_count = 0 + 2 /\ RowsOf(k, "success") = 2

\* the key a request presents resolves to, by the claim's own words: some
\* stored row holds the hash of the presented key
Resolves(key, k) == k \in 1..Len(keys) /\ keys[k].key_hash = Sha256(key)

\* C2: a single request (no other request between its lookup and its
\* commit) presenting a key that is found and valid is taken to the accepted
\* branch, and completing it increments usage_count by exactly 1, sets
\* last_used to the time record_usage read, appends exactly one success row
\* with the request's address and agent, and runs the view function with
\* that key bound
C2_AcceptedRequest ==
    [][\A r \in Req :
        /\ \A key \in Presentable, ip \in Addresses, ua \in Agents,
              k \in 1..Len(keys) :
                (MwLookup(r, key, ip, ua) /\ Resolves(key, k)
                    /\ keys[k].status = "active"
                    /\ (keys[k].expires_at = Null \/ keys[k].expires_at > now))
                => /\ pc'[r] = "mw_valid"
                   /\ loc'[r].kid = k /\ loc'[r].ip = ip /\ loc'[r].ua = ua
                   /\ loc'[r].t = now
        /\ (pc[r] = "mw_valid" /\ pc'[r] # "mw_valid")
            => LET k == loc[r].kid IN
               /\ keys'[k].usage_count = keys[k].usage_count + 1
               /\ keys'[k].last_used = loc[r].t
               /\ Len(usage') = Len(usage) + 1
               /\ SubSeq(usage', 1, Len(usage)) = usage
               /\ LET row == usage'[Len(usage')] IN
                    /\ row.key_id = k /\ row.status = "success"
                    /\ row.ip_address = loc[r].ip
                    /\ row.user_agent = loc[r].ua
               /\ calls' = Append(calls, k)
               /\ resp'.code = 200 /\ resp'.op = "api"
    ]_vars

C2_Witness ==
    /\ resp.op = "api" /\ resp.code = 200
    /\ Len(calls) = 1
    /\ keys[calls[1]].usage_count = 1
    /\ \E j \in 1..Len(usage) :
            usage[j].status = "success" /\ usage[j].ip_address = "10.0.0.2"

\* C3: a request presenting a key that is found but inactive, revoked, or
\* active with expires_at passed is taken to the rejected branch, and
\* completing it appends exactly one invalid_key row referencing the key,
\* answers 401, leaves every key row (usage_count, last_used) unchanged and
\* does not run the view function
C3_RejectedRequest ==
    [][\A r \in Req :
        /\ \A key \in Presentable, ip \in Addresses, ua \in Agents,
              k \in 1..Len(keys) :
                (MwLookup(r, key, ip, ua) /\ Resolves(key, k)
                    /\ \/ keys[k].status \in {"inactive", "revoked"}
                       \/ /\ keys[k].status = "active"
                          /\ keys[k].expires_at # Null
                          /\ now > keys[k].expires_at)
                => /\ pc'[r] = "mw_invalid" /\ loc'[r].kid = k
                   /\ UNCHANGED <<keys, usage, calls>>
        /\ (pc[r] = "mw_invalid" /\ pc'[r] # "mw_invalid")
            => /\ Len(usage') = Len(usage) + 1
               /\ SubSeq(usage', 1, Len(usage)) = usage
               /\ usage'[Len(usage')].key_id = loc[r].kid
               /\ usage'[Len(usage')].status = "invalid_key"
               /\ resp'.code = 401
               /\ UNCHANGED <<keys, calls>>
    ]_vars

\* the scenario of the spec: a key made with expires_in_days = 1, still
\* active, presented 2 days later
C3_Witness ==
    /\ resp.op = "api" /\ resp.code = 401
    /\ \E k \in 1..Len(keys) :
        /\ keys[k].status = "active"
        /\ keys[k].expires_at = keys[k].created_at + SecondsPerDay
        /\ keys[k].usage_count = 0 /\ keys[k].last_used = Null
        /\ RowsOf(k, "invalid_key") = 1
        /\ usage[1].timestamp = keys[k].created_at + 2 * SecondsPerDay

\* C4: a request with no X-API-Key header, or with a key whose hash no
\* stored row holds, is answered 401 and changes nothing: no usage row, no
\* key row, no call of the view function, and the request is over
C4_UnknownKey ==
    [][\A r \in Req, key \in Presentable, ip \in Addresses, ua \in Agents :
        (MwLookup(r, key, ip, ua)
            /\ (key = NoCred \/ \A k \in 1..Len(keys) : ~Resolves(key, k)))
        => /\ resp'.code = 401 /\ resp'.op = "api"
           /\ pc'[r] = "idle"
           /\ UNCHANGED <<keys, usage, calls>>
    ]_vars

C4_Witness ==
    /\ resp.op = "api" /\ resp.code = 401
    /\ resp.message = "The provided API key is not valid"
    /\ Len(keys) > 0 /\ usage = <<>> /\ calls = <<>>

\* C5: is_valid() is true exactly when status = active and expires_at is
\* unset or later than now
C5_IsValidIff ==
    \A k \in 1..Len(keys) :
        IsValid(keys[k], now) <=>
            /\ keys[k].status = "active"
            /\ (keys[k].expires_at = Null \/ keys[k].expires_at > now)

\* ------------------------------------------------------ the Create claims
Owns(u) == Cardinality({j \in 1..Len(keys) : keys[j].user_id = u})

\* an expires_in_days field generate_key accepts: absent, or 1..365
ValidExpiry(f) ==
    f.kind = "empty" \/ (f.kind = "int" /\ f.val \in 1..MaxExpiryDays)

QuotaError == "Maximum number of API keys reached (10)"

\* a step in which request r leaves generate_key's second half
CreateDone(r) == pc[r] = "create" /\ pc'[r] = "idle"

C7_AtMostTenKeys == \A u \in Users : Owns(u) <= KeyLimit

\* the two errors generate_key has for an expires_in_days out of range
RangeErrors == {"Expiration days must be positive",
                "Maximum expiration is 365 days"}

\* C8: Create with expires_in_days <= 0 or > 365 fails with a validation
\* error and creates no key; with expires_in_days in 1..365 the key the
\* request inserts has expires_at = the time the request was validated +
\* that many days; with no expires_in_days it has no expiry
C8_ExpiryValidation ==
    [][\A r \in Req :
        /\ \A u \in Users, name \in NameInputs, f \in ExpInputs :
            CreateCheck(r, u, name, f) =>
                /\ (f.kind = "int" /\ (f.val <= 0 \/ f.val > MaxExpiryDays)) =>
                    /\ resp'.code = 400 /\ resp'.error \in RangeErrors
                    /\ keys' = keys /\ pc'[r] = "idle"
                /\ (f.kind = "int" /\ f.val \in 1..MaxExpiryDays
                        /\ pc'[r] = "create") =>
                    loc'[r].exp = now + f.val * SecondsPerDay
                /\ (f.kind = "empty" /\ pc'[r] = "create") =>
                    loc'[r].exp = Null
        /\ (CreateDone(r) /\ keys' # keys) =>
                /\ Len(keys') = Len(keys) + 1
                /\ keys'[Len(keys')].expires_at = loc[r].exp
    ]_vars

\* a key made with the longest expiry allowed
C8_Witness ==
    /\ resp.op = "generate" /\ resp.code = 201
    /\ \E k \in 1..Len(keys) :
        keys[k].expires_at = keys[k].created_at + MaxExpiryDays * SecondsPerDay

\* ------------------------------------------------- the disclosure claims
IsRaw(c) == c.kind = "raw"

\* the strings the generator has handed out so far
Drawn == {RawKey(n) : n \in 1..issued}

\* C9: in every reachable state no stored record holds a raw key (each key
\* row holds the hash and the 16-character prefix of one generated string),
\* no response of List, Get, UpdateStatus, Update, Delete, usage listing or
\* the validation middleware contains a raw key, and a response that does
\* contain one is the successful answer of the Create or Regenerate call
\* that stored its hash
C9_RawKeyOnlyOnce ==
    /\ \A k \in 1..Len(keys) :
        /\ ~IsRaw(keys[k].key_hash) /\ ~IsRaw(keys[k].key_preview)
        /\ \E raw \in Drawn :
            /\ keys[k].key_hash = Sha256(raw)
            /\ keys[k].key_preview = Prefix16(raw)
            /\ keys[k].key_hash # raw /\ keys[k].key_preview # raw
    /\ \A d \in resp.keys : ~IsRaw(d.key_preview)
    /\ resp.op \notin {"generate", "regenerate"} => resp.api_key = NoCred
    /\ resp.api_key # NoCred =>
        /\ resp.api_key \in Drawn
        /\ resp.code \in {200, 201}
        /\ \E d \in resp.keys :
            /\ d.id \in 1..Len(keys)
            /\ keys[d.id].key_hash = Sha256(resp.api_key)

\* a regenerated key is read back with Get: the answer shows the preview of
\* the second string and no raw key
C9_Witness ==
    /\ resp.op = "get" /\ resp.code = 200 /\ resp.api_key = NoCred
    /\ \E d \in resp.keys :
        /\ keys[d.id].key_hash = Sha256(RawKey(2))
        /\ d.key_preview = Prefix16(RawKey(2))

\* no row has this id and this owner
NotOwned(u, i) ==
    ~ \E k \in 1..Len(keys) : keys[k].id = i /\ keys[k].user_id = u

\* the answer to a request for a key the caller does not own: the same
\* whether the id is another user's or nobody's, and nothing is written
Refused(op, u, i) ==
    /\ resp' = Reply(op, u, i, 404, "API key not found")
    /\ UNCHANGED <<keys, usage, issued, calls>>

\* C10: for any caller and key id, Get, UpdateStatus, Delete, Regenerate,
\* Update and usage listing give the same NotFound response, and change
\* nothing, when the key is owned by another user as when no key has that id
\* (a step answers the request its response names: operation, caller, id)
C10_NotFoundAlike ==
    [][\A u \in Users \cap {resp'.u}, i \in KeyIds \cap {resp'.id} :
        NotOwned(u, i) =>
            /\ (resp'.op = "get" /\ GetKey(u, i)) => Refused("get", u, i)
            /\ (resp'.op = "usage" /\ GetKeyUsage(u, i))
                    => Refused("usage", u, i)
            /\ (resp'.op = "delete" /\ DeleteKey(u, i))
                    => Refused("delete", u, i)
            /\ \A s \in StatusInputs :
                (resp'.op = "status" /\ UpdateKeyStatus(u, i, s))
                    => Refused("status", u, i)
            /\ \A n \in 1..MaxIssued :
                (resp'.op = "regenerate" /\ RegenerateKey(u, i, n))
                    => Refused("regenerate", u, i)
            /\ \A name \in NameInputs, f \in ExpInputs :
                (resp'.op = "update" /\ UpdateKey(u, i, name, f))
                    => Refused("update", u, i)
    ]_vars

\* Regenerate of a key that exists and belongs to the other user
C10_Witness ==
    /\ resp.op = "regenerate" /\ resp.code = 404
    /\ resp.id \in 1..Len(keys)
    /\ keys[resp.id].user_id # resp.u
    /\ keys[resp.id].status = "active"

\* ------------------------------------------------- the lifecycle claims
ThreeStatuses == {"active", "inactive", "revoked"}

InvalidStatusErrors ==
    {"Invalid status. Must be active, inactive, or revoked", "Invalid status"}

\* what a status update of key i with the normalised value v must do
StatusOutcome(i, v) ==
    IF v \in ThreeStatuses
    THEN /\ keys'[i].status = v
         /\ keys' = [keys EXCEPT ![i].status = v]
         /\ resp'.code = 200
    ELSE /\ keys' = keys
         /\ resp'.code = 400 /\ resp'.error \in InvalidStatusErrors

\* C11: UpdateStatus of an existing key, by its owner or by an admin, with a
\* new_status outside {active, inactive, revoked} fails with an
\* invalid-status error and leaves the key unchanged; with a value inside
\* the set it sets the key's status to exactly that value; every stored key
\* status is one of the three values
C11_StatusValidated ==
    [][/\ \A k \in 1..Len(keys') : keys'[k].status \in ThreeStatuses
       /\ \A i \in 1..Len(keys), s \in StatusForms :
            /\ (resp'.op = "status" /\ keys[i].user_id = 1
                    /\ UpdateKeyStatus(1, i, StripLower(s)))
                => StatusOutcome(i, StripLower(s))
            /\ (resp'.op = "admin_status"
                    /\ AdminUpdateKeyStatus(i, StripLower(s)))
                => StatusOutcome(i, StripLower(s))
    ]_vars

\* an admin's update with an unknown status is turned down after the key was
\* switched off
C11_Witness ==
    /\ resp.op = "admin_status" /\ resp.code = 400 /\ resp.id = 1
    /\ Len(keys) = 1 /\ keys[1].status = "inactive"

\* the rows user u owns after the step
OwnsNext(u) == Cardinality({j \in 1..Len(keys') : keys'[j].user_id = u})

\* C12: Delete of an owned key only sets its status to 'revoked'; the key
\* rows and the usage rows stay in the store under every operation, so the
\* number of rows a user owns never decreases, and a deleted key still
\* counts toward the owner's limit of 10
C12_SoftDelete ==
    [][/\ \A u \in Users : OwnsNext(u) >= Owns(u)
       /\ Len(keys') >= Len(keys)
       /\ \A j \in 1..Len(keys) :
            keys'[j].id = keys[j].id /\ keys'[j].user_id = keys[j].user_id
       /\ Len(usage') >= Len(usage)
       /\ SubSeq(usage', 1, Len(usage)) = usage
       /\ \A u \in Users :
            /\ (resp'.op = "delete" /\ Len(keys) >= 1 /\ keys[1].user_id = u
                    /\ DeleteKey(u, 1))
                => /\ keys' = [keys EXCEPT ![1].status = "revoked"]
                   /\ usage' = usage
                   /\ resp'.code = 200
            /\ \A r \in Req :
                (Owns(u) >= KeyLimit
                    /\ CreateCheck(r, u, GivenName("prod"), EmptyField))
                => keys' = keys /\ pc'[r] = "idle" /\ resp'.error = QuotaError
    ]_vars

\* the owner of 10 rows, the first of them deleted after it was used, is
\* refused an 11th
C12_Witness ==
    /\ resp.op = "generate" /\ resp.error = QuotaError
    /\ Owns(resp.u) = KeyLimit
    /\ keys[1].user_id = resp.u /\ keys[1].status = "revoked"
    /\ \E j \in 1..Len(usage) : usage[j].key_id = 1

\* C13: Regenerate of an owned key whose status is 'revoked' fails with the
\* invalid-state error and leaves the key record unchanged: same key_hash,
\* status, usage_count and last_used
C13_RevokedNotRegenerated ==
    [][\A i \in 1..Len(keys), n \in 1..MaxIssued :
        (resp'.op = "regenerate" /\ keys[i].user_id = 1
            /\ keys[i].status = "revoked" /\ RegenerateKey(1, i, n))
        => /\ keys' = keys
           /\ resp'.code = 400
           /\ resp'.error = "Cannot regenerate revoked key"
           /\ resp'.api_key = NoCred
    ]_vars

\* a key used once, then revoked, then sent to Regenerate: it keeps its
\* first secret
C13_Witness ==
    /\ resp.op = "regenerate" /\ resp.code = 400 /\ resp.id = 1
    /\ Len(keys) = 1 /\ keys[1].status = "revoked"
    /\ keys[1].key_hash = Sha256(RawKey(1))
    /\ keys[1].usage_count = 1 /\ keys[1].last_used # Null

\* C14: once a key has been revoked, every later Regenerate of that key is
\* rejected, also after its status was set back to 'active'
C14_RevocationTerminal ==
    [][\A i \in revokedOnce, n \in 1..MaxIssued :
        (resp'.op = "regenerate" /\ RegenerateKey(1, i, n))
        => resp'.code # 200 /\ keys' = keys
    ]_vars

UnknownKeyMessage == "The provided API key is not valid"

\* a successful Regenerate of the owner's key i with the draw n
Regenerated(i, n) ==
    /\ resp'.op = "regenerate" /\ resp'.code = 200
    /\ keys[i].user_id = 1
    /\ RegenerateKey(1, i, n)

\* the record after a successful Regenerate: same row, new hash and preview,
\* active, counters reset
ResetRecord(i) ==
    /\ keys[i].status \in {"active", "inactive"}
    /\ keys'[i].status = "active"
    /\ keys'[i].usage_count = 0 /\ keys'[i].last_used = Null
    /\ keys'[i].key_hash = Sha256(resp'.api_key)
    /\ keys'[i].key_preview = Prefix16(resp'.api_key)
    /\ keys'[i].expires_at = keys[i].expires_at
    /\ keys'[i].id = keys[i].id /\ keys'[i].user_id = keys[i].user_id
    /\ Len(keys') = Len(keys)

\* What Regenerate does guarantee (C15 without the acceptance of the new
\* secret): after a successful Regenerate of a key (active or inactive before)
\* the same record is active with usage_count 0 and last_used null and holds
\* the hash of the returned secret, and the old hash is stored nowhere unless
\* the generator returned the old secret again; the middleware rejects as
\* unknown every key whose hash no row holds, and takes to the accepted
\* branch the key whose hash an active row holds, provided the row has no
\* expiry or its expiry has not passed (Regenerate keeps the expiry)
C15_Regenerated ==
    [][/\ \A i \in 1..Len(keys), n \in 1..MaxIssued :
            Regenerated(i, n) =>
                /\ ResetRecord(i)
                /\ resp'.api_key = RawKey(n)
                /\ keys'[i].key_hash # keys[i].key_hash =>
                    \A j \in 1..Len(keys') :
                        keys'[j].key_hash # keys[i].key_hash
       /\ \A r \in Req, key \in Presentable \ {NoCred}, ua \in Agents :
            MwLookup(r, key, "10.0.0.1", ua) =>
                /\ (\A j \in 1..Len(keys) : keys[j].key_hash # Sha256(key))
                    => /\ resp'.code = 401
                       /\ resp'.message = UnknownKeyMessage
                       /\ pc'[r] = "idle"
                /\ \A j \in 1..Len(keys) :
                    (keys[j].key_hash = Sha256(key)
                        /\ keys[j].status = "active"
                        /\ (keys[j].expires_at = Null
                                \/ now <= keys[j].expires_at))
                    => pc'[r] = "mw_valid" /\ loc'[r].kid = j
    ]_vars

\* a key with an expiry is used, expires, and is regenerated with a second
\* secret: the record is reset and its expiry is still in the past
C15_Witness ==
    /\ resp.op = "regenerate" /\ resp.code = 200
    /\ resp.api_key = RawKey(2)
    /\ keys[1].key_hash = Sha256(RawKey(2))
    /\ keys[1].usage_count = 0 /\ keys[1].last_used = Null
    /\ Len(usage) = 1 /\ usage[1].status = "success"
    /\ keys[1].expires_at # Null /\ now > keys[1].expires_at

\* C15 as stated, for a Regenerate that returned a secret other than the
\* old one: the old secret matches no row and the new secret is the secret
\* of a key that is_valid() accepts
C15_NewSecretValidates ==
    [][\A i \in 1..Len(keys), n \in 1..MaxIssued :
            (Regenerated(i, n) /\ keys'[i].key_hash # keys[i].key_hash) =>
                /\ ResetRecord(i)
                /\ \A j \in 1..Len(keys') :
                        keys'[j].key_hash # keys[i].key_hash
                /\ IsValid(keys'[i], now)
    ]_vars

\* C16: Update of an owned key whose request carries no expiry field, or an
\* empty one, leaves the key's expires_at unchanged
C16_ExpiryKept ==
    [][\A i \in 1..Len(keys), name \in NameInputs :
        (resp'.op = "update" /\ keys[i].user_id = 1
            /\ UpdateKey(1, i, name, EmptyField))
        => keys'[i].expires_at = keys[i].expires_at
    ]_vars

\* ------------------------------------------------ the one-time code claims
\* the seconds since the pending code of row k was issued
OtpAge(k) == now - accounts[k].otp_created_at

PendingOtp(k) ==
    accounts[k].otp_code # NoCode /\ accounts[k].otp_created_at # Null

\* C17: verify_otp(code) is true exactly when a pending code and its
\* timestamp exist, at most 600 seconds have passed since the timestamp, and
\* the submitted code equals the stored one; so it is false for a wrong
\* code, without a pending code, and for the right code from second 601 on
C17_VerifyOtpIff ==
    \A k \in 1..Len(accounts), otp_code \in OtpForms :
        /\ VerifyOtp(accounts[k], otp_code, now)
            <=> (PendingOtp(k) /\ OtpAge(k) <= 600
                    /\ otp_code = accounts[k].otp_code)
        /\ (PendingOtp(k) /\ OtpAge(k) = 600)
            => VerifyOtp(accounts[k], accounts[k].otp_code, now)
        /\ (PendingOtp(k) /\ OtpAge(k) >= 601)
            => ~VerifyOtp(accounts[k], accounts[k].otp_code, now)
        /\ ~PendingOtp(k) => ~VerifyOtp(accounts[k], otp_code, now)

\* a code is verified by the route in the last second of its window
C17_Witness ==
    /\ resp.op = "verify_otp" /\ resp.code = 200
    /\ resp.u \in 1..Len(accounts)
    /\ accounts[resp.u].otp_verified /\ ~PendingOtp(resp.u)
    /\ now = OtpWindow
    /\ \E j \in 1..Len(outbox) :
            outbox[j].kind = "otp" /\ outbox[j].to = accounts[resp.u].email

\* the code of user uid is consumed by the step: nothing is pending after it
\* and the code presented no longer verifies
Consumed(uid, otp_code) ==
    /\ accounts'[uid].otp_code = NoCode
    /\ accounts'[uid].otp_created_at = Null
    /\ ~VerifyOtp(accounts'[uid], otp_code, now')

IssuingRoutes == {"register", "resend_otp", "update_email", "forgot_password"}

\* C18: one request at a time, a code is used once: a verify_otp or a
\* reset_password that succeeds clears the user's code and timestamp; while
\* nothing is pending every verify_otp and reset_password is refused and
\* changes nothing; and only the four issuing routes make a code pending
C18_SingleUse ==
    [][/\ \A uid \in UserIds, otp_code \in OtpForms :
            /\ (resp'.op = "verify_otp" /\ VerifyOtpRoute(uid, otp_code)) =>
                /\ resp'.code = 200 => Consumed(uid, otp_code)
                /\ (uid \in 1..Len(accounts) /\ ~PendingOtp(uid))
                        => resp'.code = 400 /\ accounts' = accounts
            /\ \A form \in OtpResetForms :
                (resp'.op = "reset_password"
                    /\ ResetPassword(uid, otp_code, form[1], form[2])) =>
                    /\ resp'.code = 200 => Consumed(uid, otp_code)
                    /\ (uid \in 1..Len(accounts) /\ ~PendingOtp(uid))
                        => resp'.code = 400 /\ accounts' = accounts
       /\ \A k \in 1..Len(accounts) :
            (~PendingOtp(k) /\ accounts'[k].otp_code # NoCode)
                => resp'.op \in IssuingRoutes /\ resp' # resp
    ]_vars

\* a user verified the address, which used the code up, and a reset with a
\* code is refused afterwards
C18_Witness ==
    /\ resp.op = "reset_password" /\ resp.code = 400
    /\ resp.error = "Invalid or expired OTP code"
    /\ resp.u \in 1..Len(accounts)
    /\ accounts[resp.u].otp_verified /\ ~accounts[resp.u].is_admin
    /\ ~PendingOtp(resp.u)

\* user k holds the code of draw n, issued in this step: the stored code
\* and timestamp are the new ones, the code stored before no longer verifies
\* unless it is the same, and the new code verifies for OtpWindow seconds
\* from now
Reissued(k, n) ==
    /\ accounts'[k].otp_code = GenerateOtp(n)
    /\ accounts'[k].otp_created_at = now'
    /\ \A c \in OtpForms :
            VerifyOtp(accounts'[k], c, now') <=> c = GenerateOtp(n)
    /\ k \in 1..Len(accounts) /\ accounts[k].otp_code # GenerateOtp(n)
            => ~VerifyOtp(accounts'[k], accounts[k].otp_code, now')
    /\ VerifyOtp(accounts'[k], GenerateOtp(n), now' + OtpWindow)
    /\ ~VerifyOtp(accounts'[k], GenerateOtp(n), now' + OtpWindow + 1)

\* C19: a user has at most one pending code: each issuance (register,
\* resend_otp, update_email, forgot_password) replaces the stored code and
\* its timestamp, so the code issued before, when it differs, no longer
\* verifies, and the 600 seconds run from the newest issuance
C19_OnePendingOtp ==
    [][\A n \in OtpDraws, sent \in BOOLEAN :
        /\ \A form \in OtpRegisterForms :
            (resp'.op = "register" /\ resp'.code # 400
                /\ Register(form[1], form[2], Strong, n, sent))
            => Reissued(Len(accounts'), n)
        /\ \A uid \in UserIds :
            /\ (resp'.op = "resend_otp" /\ resp'.code # 400
                    /\ ResendOtp(uid, n, sent))
                => Reissued(uid, n)
            /\ (resp'.op = "update_email" /\ resp'.code \in {200, 500}
                    /\ UpdateEmail(uid, "carol@x.io", Strong, n, sent))
                => Reissued(uid, n)
        /\ \A email \in {"bob@x.io", "carol@x.io"} :
            (resp'.op = "forgot_password" /\ resp'.u # 0
                /\ ForgotPassword(email, n, sent))
            => Reissued(resp'.u, n)
    ]_vars

\* the code mailed at registration was replaced by another one a window later
C19_Witness ==
    /\ resp.op \in IssuingRoutes \ {"register"}
    /\ resp.u \in 1..Len(accounts)
    /\ Len(outbox) = 1 /\ outbox[1].kind = "otp"
    /\ outbox[1].code = GenerateOtp(OtpLow)
    /\ accounts[resp.u].otp_code = GenerateOtp(OtpHigh)
    /\ accounts[resp.u].otp_created_at = now
    /\ now = accounts[resp.u].created_at + OtpWindow

\* ----------------------------------------------------- the login claims
\* C20: a login attempt whose identifier matches a user appends exactly one
\* LoginHistory row for that user, with success set to whether the login
\* succeeded (wrong password, right password on a verified account, right
\* password on an unverified account); an identifier that matches no user
\* appends no row
C20_LoginRecorded ==
    [][\A username \in LoginIdentifiers \ {""},
          password \in LoginPasswords \ {NoPassword}, sent \in BOOLEAN :
        (resp'.op = "login"
            /\ Login(username, password, "10.0.0.1", "curl", sent))
        => LET k == FindByIdentifier(username)
           IN IF k = 0 THEN logins' = logins
              ELSE /\ Len(logins') = Len(logins) + 1
                   /\ SubSeq(logins', 1, Len(logins)) = logins
                   /\ logins'[Len(logins')].user_id = accounts[k].id
                   /\ logins'[Len(logins')].success = (resp'.code = 200)
    ]_vars

\* login's answer to a failed attempt
InvalidCredentials ==
    AuthReply("login", 0, 401, "Invalid username or password", "")

\* C21: a failed login with an identifier that matches no user gets the same
\* status and body as a failed login with a matching identifier and a wrong
\* password
C21_SameFailure ==
    [][\A username \in LoginIdentifiers \ {""},
          password \in LoginPasswords \ {NoPassword}, sent \in BOOLEAN :
        (resp'.op = "login"
            /\ Login(username, password, "10.0.0.1", "curl", sent))
        => LET k == FindByIdentifier(username)
           IN (k = 0 \/ ~CheckPassword(accounts[k], password))
                => resp' = InvalidCredentials
    ]_vars

\* both kinds of failed attempt were made: one left a row, the other none
C21_Witness ==
    /\ resp = InvalidCredentials
    /\ Len(accounts) = MaxAccounts
    /\ Len(logins) = 1 /\ logins[1].success = FALSE
    /\ logins[1].timestamp < now

\* C23: login never succeeds for a user whose otp_verified is false: even
\* with the right password there is no session and last_login stays; a
\* login that succeeds is the login of a user with otp_verified true
C23_VerifiedBeforeLogin ==
    [][\A username \in LoginIdentifiers \ {""},
          password \in LoginPasswords \ {NoPassword}, sent \in BOOLEAN :
        (resp'.op = "login"
            /\ Login(username, password, "10.0.0.1", "curl", sent))
        => LET k == FindByIdentifier(username)
           IN /\ (k # 0 /\ ~accounts[k].otp_verified) =>
                    /\ resp'.code # 200
                    /\ sessions' = sessions
                    /\ accounts'[k].last_login = accounts[k].last_login
              /\ resp'.code = 200 =>
                    /\ k # 0 /\ accounts[k].otp_verified
                    /\ accounts[k].id \in sessions'
    ]_vars

\* the second user gave the right password before verifying the address
C23_Witness ==
    /\ resp.op = "login" /\ resp.code = 403
    /\ resp.error = "Please verify your email first"
    /\ Len(accounts) = MaxAccounts
    /\ ~accounts[MaxAccounts].otp_verified
    /\ accounts[MaxAccounts].last_login = Null
    /\ MaxAccounts \notin sessions

\* ---------------------------------------------- the registration claims
\* the step registered a user: the row added by it
Registered == Len(accounts') = Len(accounts) + 1

Breaks(req, text) ==
    LET c == Chars(text)
    IN CASE req = "length" -> Len(c) < 8
         [] req = "uppercase" -> \A i \in 1..Len(c) : c[i] \notin UpperCase
         [] req = "lowercase" -> \A i \in 1..Len(c) : c[i] \notin LowerCase
         [] req = "digit" -> \A i \in 1..Len(c) : c[i] \notin DigitChars

CheckOrder == <<"length", "uppercase", "lowercase", "digit">>

FirstBroken(text) ==
    LET S == {j \in 1..Len(CheckOrder) : Breaks(CheckOrder[j], text)}
    IN IF S = {} THEN "none" ELSE CheckOrder[SetMin(S)]

MessageOf(req) ==
    CASE req = "length" -> "Password must be at least 8 characters long"
      [] req = "uppercase" ->
            "Password must contain at least one uppercase letter"
      [] req = "lowercase" ->
            "Password must contain at least one lowercase letter"
      [] req = "digit" -> "Password must contain at least one number"
      [] OTHER -> ""

\* the step is a registration with this password
RegisteringWith(text) ==
    /\ resp'.op = "register"
    /\ \E form \in PasswordForms, sent \in BOOLEAN :
            Register(form[1], form[2], PasswordOf(text), OtpLow, sent)

\* C26, amended: a rejected password is answered with the message of the
\* first requirement it breaks in the order length >= 8, uppercase,
\* lowercase, digit: "short1" gets the message about the length, not the
\* one about the uppercase letter it also lacks; "LongEnough1" is accepted
C26_FirstBrokenNamed ==
    [][\A text \in PasswordTexts :
        /\ RegisteringWith(text) =>
            /\ FirstBroken(text) # "none" =>
                /\ resp'.code = 400
                /\ resp'.error = MessageOf(FirstBroken(text))
                /\ accounts' = accounts
            /\ FirstBroken(text) = "none" =>
                \A req \in {"length", "uppercase", "lowercase", "digit"} :
                    resp'.error # MessageOf(req)
            /\ text = "short1" => resp'.error = MessageOf("length")
            /\ text = "LongEnough1" => resp'.code # 400 \/ ~Registered
        /\ \A uid \in 1..Len(accounts) :
            (resp'.op = "reset_password"
                /\ VerifyOtp(accounts[uid], GenerateOtp(OtpHigh), now)
                /\ ResetPassword(uid, GenerateOtp(OtpHigh), PasswordOf(text),
                                 PasswordOf(text)))
            => IF FirstBroken(text) = "none"
               THEN resp'.code = 200
                        /\ CheckPassword(accounts'[uid], PasswordOf(text))
               ELSE resp'.code = 400
                        /\ resp'.error = MessageOf(FirstBroken(text))
                        /\ accounts' = accounts
    ]_vars

\* "short1" was refused at a registration because of its length
C26_Witness ==
    /\ resp.op = "register" /\ resp.code = 400
    /\ resp.error = MessageOf(FirstBroken("short1"))
    /\ resp.error = "Password must be at least 8 characters long"
    /\ Breaks("uppercase", "short1")
    /\ Len(accounts) = 1

\* C26 as stated: "short1" is rejected with the message that names the
\* uppercase-letter requirement
C26_AsStated ==
    [][RegisteringWith("short1") =>
        /\ resp'.code = 400
        /\ resp'.error = MessageOf("uppercase")
    ]_vars

\* ------------------------------------------------ the generate_otp claim
\* some strings of six digits and the numbers they write
SixDigits == {"000000", "000042", "099999", "100000", "999999"}

NumberOf(s) ==
    CASE s = "000000" -> 0
      [] s = "000042" -> 42
      [] s = "099999" -> 99999
      [] s = "100000" -> 100000
      [] s = "999999" -> 999999

\* generate_otp can return s: some draw of random.randint is formatted as s
\* (str(n) = s only for the number n that s writes)
CanReturn(s) ==
    \E n \in {NumberOf(s)} \cap (OtpLow..OtpHigh) : GenerateOtp(n) = s

\* C27: every string of six digits from 000000 to 999999, those with
\* leading zeros included, is a possible value of generate_otp, and so of
\* the code a route stores
C27_FullRange ==
    /\ \A s \in SixDigits : CanReturn(s)
    /\ \A k \in 1..Len(accounts) :
            accounts[k].otp_code # NoCode => CanReturn(accounts[k].otp_code)

\* ----------------------------------------------- more lifecycle claims
OwnerRoutes == {"status", "update", "regenerate", "delete"}

\* C28: the status of a key is one-way toward 'revoked': no UpdateStatus,
\* Update, Regenerate or Delete of its owner takes a revoked key to another
\* status
C28_RevokedOneWay ==
    [][\A i \in 1..Len(keys) :
        (resp'.op \in OwnerRoutes /\ resp'.u = keys[i].user_id
            /\ keys[i].status = "revoked")
        => keys'[i].status = "revoked"
    ]_vars

\* ----------------------------------------------------- the hash claims
UniqueHashes ==
    \A i, j \in 1..Len(keys) :
        keys[i].key_hash = keys[j].key_hash => i = j

\* the rows other than k that store the hash of the secret of draw n
Colliding(n, k) ==
    {j \in 1..Len(keys) : j # k /\ keys[j].key_hash = Sha256(RawKey(n))}

\* C25: no two ApiKey rows have the same key_hash, so a secret resolves to
\* at most one row; a Create or a Regenerate whose new secret hashes to the
\* key_hash of another row is rejected and leaves every row as it was
C25_HashUnique ==
    [][/\ UniqueHashes'
       /\ \A key \in Presentable :
            Cardinality({j \in 1..Len(keys') :
                            keys'[j].key_hash = Sha256(key)}) <= 1
       /\ \A n \in 1..MaxIssued :
            /\ \A r \in Req :
                (resp'.op = "generate" /\ pc[r] = "create"
                    /\ Colliding(n, 0) # {} /\ CreateCommit(r, n))
                => keys' = keys /\ resp'.code = 500
            /\ \A u \in Users \cap {resp'.u}, i \in PairIds \cap {resp'.id} :
                (resp'.op = "regenerate" /\ OwnedKey(i, u) # 0
                    /\ Colliding(n, OwnedKey(i, u)) # {}
                    /\ RegenerateKey(u, i, n))
                => keys' = keys /\ resp'.code \in {400, 500}
    ]_vars

\* a Regenerate drew the secret of the other user's key and was rejected
C25_Witness ==
    /\ resp.op = "regenerate" /\ resp.code = 500
    /\ Len(keys) = 2 /\ keys[1].user_id # keys[2].user_id
    /\ UniqueHashes

\* ------------------------------------------------ the confinement claim
\* the step leaves every key of the users other than u as it is
OthersKept(u) ==
    /\ Len(keys') >= Len(keys)
    /\ \A j \in 1..Len(keys) : keys[j].user_id # u => keys'[j] = keys[j]

\* C29: an UpdateStatus, Delete, Regenerate or Update of user u, with any
\* key id, changes no field of a key of another user, and a Create of u
\* adds at most one key, owned by u
C29_OwnerConfined ==
    [][/\ \A u \in Users \cap {resp'.u}, i \in PairIds \cap {resp'.id} :
            /\ (resp'.op = "status" /\ UpdateKeyStatus(u, i, "inactive"))
                    => OthersKept(u) /\ Len(keys') = Len(keys)
            /\ (resp'.op = "delete" /\ DeleteKey(u, i))
                    => OthersKept(u) /\ Len(keys') = Len(keys)
            /\ \A n \in 1..MaxIssued :
                (resp'.op = "regenerate" /\ RegenerateKey(u, i, n))
                    => OthersKept(u) /\ Len(keys') = Len(keys)
            /\ (resp'.op = "update"
                    /\ UpdateKey(u, i, GivenName("prod"), EmptyField))
                    => OthersKept(u) /\ Len(keys') = Len(keys)
       /\ \A r \in Req, n \in 1..MaxIssued :
            (resp'.op = "generate" /\ pc[r] = "create" /\ CreateCommit(r, n))
            => /\ OthersKept(loc[r].u)
               /\ \A j \in 1..Len(keys) : keys'[j] = keys[j]
               /\ Len(keys') <= Len(keys) + 1
               /\ \A j \in (Len(keys) + 1)..Len(keys') :
                        keys'[j].user_id = loc[r].u
    ]_vars

\* user 1 sent Delete with the id of user 2's key, which is still active
C29_Witness ==
    /\ resp.op = "delete" /\ resp.u = 1 /\ resp.id = 2 /\ resp.code = 404
    /\ Len(keys) = 2
    /\ keys[1].user_id = 1
    /\ keys[2].user_id = 2 /\ keys[2].status = "active"

\* ---------------------------------------------- the concurrency claims
UsersUnique ==
    \A i, j \in 1..Len(accounts) :
        (accounts[i].username = accounts[j].username
            \/ accounts[i].email = accounts[j].email) => i = j

AlreadyExists == {"Username already exists", "Email already registered"}

\* C24: no two users share a username or an email, and of two
\* registrations with the same username or email that both passed the
\* existence checks before either committed, one creates the user and the
\* other is answered 400 with an 'already exists' error
C24_OneRegistersOtherTold ==
    [][\A r \in Req :
        (resp'.op = "register" /\ flight[r].op = "register"
            /\ flight'[r] = NoFlight)
        => /\ UsersUnique'
           /\ \/ Registered
              \/ /\ accounts' = accounts
                 /\ resp'.code = 400 /\ resp'.error \in AlreadyExists
    ]_vars

Consuming == {"verify_otp", "reset_password"}

\* C30: of two overlapping verify_otp or reset_password requests that
\* present the same pending code of one user inside its window at most one
\* succeeds: a success clears the code, so no request succeeds for a user
\* whose code has been cleared since the request checked it
C30_ConsumedAtMostOnce ==
    [][\A r \in Req :
        (flight[r].op \in Consuming /\ flight'[r] = NoFlight
            /\ resp'.op = flight[r].op /\ resp'.code = 200)
        => PendingOtp(flight[r].uid)
    ]_vars

\* the three columns of the one-time code of user k are what they were
OtpKept(k) ==
    /\ accounts'[k].otp_code = accounts[k].otp_code
    /\ accounts'[k].otp_created_at = accounts[k].otp_created_at
    /\ accounts'[k].otp_verified = accounts[k].otp_verified

\* C31: a verify_otp or reset_password whose code does not verify (a wrong
\* code, an expired code, no pending code) is refused and leaves the user's
\* otp_code, otp_created_at and otp_verified as they were, so the attempt
\* neither renews the 600 seconds of the pending code nor uses it up
C31_FailedAttemptKeeps ==
    [][\A uid \in UserIds, otp_code \in OtpForms \ {""} :
        (uid \in 1..Len(accounts) /\ ~VerifyOtp(accounts[uid], otp_code, now))
        => /\ (resp'.op = "verify_otp" /\ VerifyOtpRoute(uid, otp_code))
                => resp'.code = 400 /\ OtpKept(uid)
           /\ \A form \in OtpResetForms :
                (resp'.op = "reset_password"
                    /\ ResetPassword(uid, otp_code, form[1], form[2]))
                => resp'.code = 400 /\ OtpKept(uid)
    ]_vars

\* a wrong code was refused at the end of the window of a pending code,
\* which is still the code issued 600 seconds ago
C31_Witness ==
    /\ resp.op = "verify_otp" /\ resp.code = 400
    /\ resp.error = "Invalid or expired OTP code"
    /\ resp.u \in 1..Len(accounts)
    /\ ~accounts[resp.u].otp_verified
    /\ PendingOtp(resp.u) /\ OtpAge(resp.u) = OtpWindow
    /\ VerifyOtp(accounts[resp.u], accounts[resp.u].otp_code, now)

\* ------------------------------------------------ the notification claims
\* the mail handed to the mail server by the step
Posted == outbox'[Len(outbox')]

\* what the mail speaks of is committed: the code of an otp mail is the code
\* of the user with that address, a login alert goes with the LoginHistory
\* row and last_login of the login, a key mail shows the stored preview
Committed(m) ==
    CASE m.kind = "otp" ->
            \E k \in 1..Len(accounts') :
                /\ accounts'[k].email = m.to
                /\ accounts'[k].otp_code = m.code
                /\ accounts'[k].otp_created_at # Null
      [] m.kind = "login_alert" ->
            \E k \in 1..Len(accounts') :
                /\ accounts'[k].email = m.to
                /\ accounts'[k].last_login = now
                /\ logins' = Append(logins,
                        LoginRow(k, "10.0.0.1", "curl", TRUE, now))
      [] m.kind = "api_key_generated" ->
            \E i \in 1..Len(keys') :
                /\ keys'[i].key_preview = m.key_preview
                /\ keys'[i].name = m.name
                /\ keys'[i].key_hash = Sha256(resp'.api_key)
                /\ keys' # keys
                /\ accounts[keys'[i].user_id].email = m.to
      [] OTHER -> FALSE

C33_LoginDespiteMail ==
    [][\A username \in LoginIdentifiers \ {""},
          password \in LoginPasswords \ {NoPassword}, sent \in BOOLEAN :
        LET k == FindByIdentifier(username)
        IN (/\ resp'.op = "login"
            /\ k # 0 /\ CheckPassword(accounts[k], password)
            /\ accounts[k].otp_verified
            /\ Login(username, password, "10.0.0.1", "curl", sent))
           => /\ resp' = AuthReply("login", k, 200, "", "Login successful!")
              /\ logins' = Append(logins,
                        LoginRow(k, "10.0.0.1", "curl", TRUE, now))
              /\ accounts' = [accounts EXCEPT ![k].last_login = now]
              /\ k \in sessions'
              /\ outbox' = IF sent
                    THEN Append(outbox,
                            Mail("login_alert", accounts[k].email, ""))
                    ELSE outbox
    ]_vars

\* a user is logged in and no alert went out: the only mail the server took
\* is the code of a registration
C33_Witness ==
    /\ resp.op = "login" /\ resp.code = 200
    /\ resp.u \in sessions
    /\ accounts[resp.u].last_login = now
    /\ Len(logins) > 0 /\ logins[Len(logins)].success
    /\ logins[Len(logins)].user_id = resp.u
    /\ Len(outbox) = MaxMail
    /\ \A j \in 1..Len(outbox) : outbox[j].kind = "otp"

MailFailed == "Failed to send verification email"

\* C34: when the mail with the code of a registration that is not the first
\* cannot be sent, register answers 500 and the user it inserted stays:
\* unverified, not an administrator, with the code pending; every later
\* registration with that username or that email is refused as taken
C34_RegisteredWithoutMail ==
    [][/\ \A r \in Req :
            (/\ resp'.op = "register" /\ resp' # resp
             /\ flight[r].op = "register" /\ ~flight[r].first
             /\ FindByUsername(flight[r].username) = 0
             /\ FindByEmail(flight[r].email) = 0
             /\ RegisterCommit(r, OtpLow, FALSE))
            => /\ resp'.code = 500 /\ resp'.error = MailFailed
               /\ Len(accounts') = Len(accounts) + 1
               /\ outbox' = outbox
               /\ LET row == accounts'[Len(accounts')]
                  IN /\ row.username = flight[r].username
                     /\ row.email = flight[r].email
                     /\ ~row.otp_verified /\ ~row.is_admin
                     /\ row.otp_code = GenerateOtp(OtpLow)
                     /\ VerifyOtp(row, GenerateOtp(OtpLow), now)
       /\ \A r \in Req, form \in MailForms :
            (/\ resp'.op = "register"
             /\ FindByUsername(form[1]) # 0 \/ FindByEmail(form[2]) # 0
             /\ RegisterCheck(r, form[1], form[2], Strong))
            => /\ resp'.code = 400
               /\ resp'.error = IF FindByUsername(form[1]) # 0
                                    THEN "Username already exists"
                                    ELSE "Email already registered"
               /\ UNCHANGED <<accounts, flight, outbox>>
    ]_vars

\* carol registers with the address of a user whose registration mail was
\* never sent, and is told that the address is taken
C34_Witness ==
    /\ resp.op = "register" /\ resp.code = 400
    /\ resp.error = "Email already registered"
    /\ Len(accounts) = 2
    /\ accounts[2].username = "bob" /\ accounts[2].email = "bob@x.io"
    /\ ~accounts[2].otp_verified
    /\ accounts[2].otp_code = GenerateOtp(OtpLow)
    /\ outbox = <<>>

\* ------------------------------------------------ the verification gate
GuardedRoutes ==
    {"generate", "list", "get", "status", "delete", "usage", "regenerate",
     "update", "change_password", "update_email"}

\* user u changed the address and has not verified the new one
Changed(u) == accounts[u].email = "carol@x.io" /\ ~accounts[u].otp_verified

\* C35: an email change that succeeds leaves the user unverified with a new
\* code pending; from then on the guarded routes (the key routes,
\* change_password, update_email) refuse every request of the user that
\* arrives, login refuses the user, and the user becomes verified again
\* only by a verify_otp that succeeds
C35_UnverifiedUntilOtp ==
    [][\A u \in 1..Len(accounts) :
        /\ (resp' # resp /\ resp'.op = "update_email" /\ resp'.u = u
                /\ resp'.code = 200)
            => /\ ~accounts'[u].otp_verified
               /\ accounts'[u].otp_code = GenerateOtp(OtpHigh)
               /\ accounts'[u].otp_created_at = now
        /\ Changed(u) =>
            /\ (resp' # resp /\ resp'.u = u /\ resp'.op \in GuardedRoutes
                    /\ pc' = pc)
                    => resp'.code \in {302, 403}
            /\ \A r \in Req :
                    (pc[r] = "idle" /\ pc'[r] = "create") => loc'[r].u # u
            /\ u \notin sessions => u \notin sessions'
            /\ accounts'[u].otp_verified
                    => (resp'.op = "verify_otp" /\ resp'.code = 200
                            /\ resp'.u = u)
    ]_vars

Uncounted(k) == RowsOf(k, "success") - keys[k].usage_count

\* C37: usage_count is the number of success rows appended for the key
\* since its creation or its latest successful Regenerate: a new key has no
\* row and count 0, a successful Regenerate sets the count to 0, every other
\* step moves the count and the success rows together, and a request that
\* completes on the rejected branch leaves every key as it was
C37_AuditConsistent ==
    [][/\ \A k \in 1..Len(keys') :
            IF k > Len(keys)
            THEN keys'[k].usage_count = 0
            ELSE IF resp' # resp /\ resp'.op = "regenerate" /\ resp'.code = 200
                        /\ keys'[k] # keys[k]
            THEN keys'[k].usage_count = 0
            ELSE Uncounted(k)' = Uncounted(k)
       /\ \A r \in Req :
            (pc[r] = "mw_invalid" /\ pc'[r] = "idle") => keys' = keys
    ]_vars

\* ------------------------------------------------------ the update claim
\* an expiry value the Update operation rejects, by the claim's words: not
\* a number, or a number <= 0 or > 365
RejectedExpiry(f) ==
    f.kind = "text" \/ (f.kind = "int" /\ (f.val <= 0 \/ f.val > 365))

\* C38: an Update of an owned key whose expiry value is rejected answers
\* 400 and leaves every stored key as it was, its name included when the
\* request carried a new name
C38_RejectedUpdateKeepsRecord ==
    [][\A i \in 1..Len(keys), form \in UpdateForms :
        (resp'.op = "update" /\ UpdateKey(1, i, form[1], form[2])
            /\ RejectedExpiry(form[2]))
        => /\ resp'.code = 400
           /\ keys' = keys
    ]_vars

\* a key renamed to "prod" with a 365-day expiry, then an Update carrying
\* the name "stage" and 366 days was rejected: name and expiry are kept
C38_Witness ==
    /\ resp.op = "update" /\ resp.code = 400
    /\ resp.error = "Maximum expiration is 365 days"
    /\ keys[resp.id].name = GivenName("prod")
    /\ keys[resp.id].expires_at # Null

\* ------------------------------------------------ the first-user claim
\* the users registration made administrators (no other operation of the
\* registration race sets is_admin)
FirstUsers ==
    {u \in 1..Len(accounts) :
        accounts[u].is_admin /\ accounts[u].otp_verified}

\* C39: at most one user is an administrator by the first-user rule, also
\* when registrations with different usernames and emails overlap on an
\* empty store
C39_OneFirstUser == Cardinality(FirstUsers) <= 1
====
